---- MODULE Spec2Model ----
(***************************************************************************)
(* The shared-memory ring buffer of IPC_LINUX.c (and its Windows twin      *)
(* IPC.c): a coordinator/producer process (main) and a forked consumer     *)
(* process (consumer_process) exchanging n TxMsg records through           *)
(* Ring.buf under two counting semaphores and, in safe mode, a binary      *)
(* semaphore used as a mutex.                                              *)
(*                                                                         *)
(* Every step of the two loops is a set-valued operator on a state record  *)
(* (the successors the statement can produce, {} when it cannot run); the  *)
(* actions install one of those successors.  Blocking calls are steps that *)
(* are enabled only when the semaphore is positive.  The loops of IPC.c    *)
(* are statement for statement those of IPC_LINUX.c (WaitForSingleObject   *)
(* for sem_wait, ReleaseSemaphore for sem_post), so one model serves both. *)
(* now_us() reads a clock that only the Tick step advances; the clock      *)
(* influences no control flow, so it stands still in Spec and runs in      *)
(* SpecClock.  Of the statistics the consumer's one-way latency series is   *)
(* modelled (the three other series are aggregated by the same             *)
(* statements).  Not modelled: the payload text, and sem_wait / sem_post   *)
(* returning an error.                                                     *)
(*                                                                         *)
(* The second half of IPC_LINUX.c, the mutex-timing demo, is modelled      *)
(* statement by statement: N_TX threads running process_transaction,      *)
(* started and joined by main's loops (SpecDemo).                          *)
(*                                                                         *)
(* The five functions of Scheduler.c are modelled one turn of their loop   *)
(* per step, on a Process table, the clock current_time and, for           *)
(* round_robin, queue[] with its front cursor (SpecSched).  slices and     *)
(* idles record what the functions write into gantt[] / gantt_time[].      *)
(* Not modelled: the bounds of gantt[], events[], queue[], is_completed[]  *)
(* and in_queue[], the event log, and the metrics made of rand() and of    *)
(* the wall clock.                                                         *)
(***************************************************************************)
EXTENDS Integers, Sequences, FiniteSets, TLC

\* Ring capacity.  The source sets 1024; the model scales it down so that
\* the ring fills and wraps within the explored runs.
RING_CAP == 2

\* Largest record count the console input offers.
MaxN == 12

\* Largest record count explored when the ring content is arbitrary.
MaxCorruptN == 3

\* Largest value of the clock and largest record count explored while the
\* clock runs.
MaxClock == 2

MaxClockN == 3

\* Stands for LLONG_MAX, the initial value of min_lat: the largest integer
\* the checker represents, above every duration of the model.
LLONG_MAX == 2147483647

\* The presence table is uint8_t seen[]: its counters wrap at 256.
U8 == 256

VARIABLES
    g_unsafe,    \* 0: safe mode, 1: --unsafe
    n,           \* record count read by scanf
    ipc,         \* named segment + semaphores: "absent", "created", "unlinked"
    head, tail,  \* Ring cursors
    buf,         \* Ring.buf, indexed 0 .. RING_CAP-1
    sem_empty, sem_full, sem_mutex,
    ppc, p_i, p_msg, p_exit,   \* main: position, loop index, local msg, exit code
    cpc, c_i, c_msg, c_exit,   \* consumer_process: the same
    seen, missing, duplicates, \* the consumer's presence table and audit result
    clock,       \* what now_us() returns
    p_t0,        \* main: t0 of the current iteration
    c_t0, c_lat, \* consumer_process: t0 and lat of the current iteration
    c_unsafe, c_n,             \* the consumer's own g_unsafe and n
    lat_sum, min_lat, max_lat, \* consumer_process: the latency aggregates
    left_behind, \* what the four IPC names refer to when main starts
    \* history variables (not program state)
    sent,        \* records stored into the ring, in order
    got,         \* records copied out of the ring, in order
    unread,      \* unread[k]: slot k holds a complete record not yet copied out
    clobber,     \* the producer started writing a slot that was unread or being copied
    stale,       \* the consumer started copying a slot that held no complete unread record
    torn,        \* the consumer's copy in progress overlapped a producer write
    touched,     \* indices at which seen[] has been accessed in the receive loop
    enq, deq,    \* how many times head / tail have been advanced
    p_twaited,   \* clock value when the producer's last wait returned
    failed,      \* processes in which a setup call has failed
    calls,       \* IPC calls main has made: "cleanup_ipc", "shm_open", "sem_open", "fork"
    mutex_ops,   \* calls made on the mutex semaphore, as "process.call"
    lats,        \* the latencies recorded by the consumer, in order
    \* the mutex-timing demo (Process Synchronization_LINUX.c)
    account_balance,           \* the shared balance
    balance_lock, print_lock,  \* the two mutexes: 0 free, else the tx_id of the owner
    t_pc, before, after,       \* process_transaction per tx_id: position and locals
    d_pc, d_i, d_exit,         \* main of the demo: position, loop index, exit code
    \* the CPU scheduler simulator (Scheduler.c), one call of one algorithm
    algorithm,     \* the function called: "fcfs", "sjf", ..., or "none"
    processes,     \* Process processes[], indexed 0 .. n-1
    quantum,       \* the quantum argument (0 where the function has none)
    s_pc, s_i,     \* position in the function, fcfs's loop index
    current_time, completed,
    is_completed,  \* sjf, priority_scheduling
    queue, front,  \* round_robin: queue[0 .. rear-1] as a sequence, rear = Len(queue)
    in_queue, last_executed,
    \* history variables of the scheduler
    slices,        \* the execution intervals so far: [idx, pid, from, to], in order
    idles          \* the values of current_time at which the loop idled

ipc_vars == <<g_unsafe, n, ipc, head, tail, buf, sem_empty, sem_full, sem_mutex,
          ppc, p_i, p_msg, p_exit, cpc, c_i, c_msg, c_exit,
          seen, missing, duplicates, clock, p_t0, c_t0, c_lat,
          sent, got, unread, clobber, stale, torn, touched, enq, deq,
          p_twaited, failed, calls,
          c_unsafe, c_n, lat_sum, min_lat, max_lat, mutex_ops, lats,
          left_behind>>

demo_vars == <<account_balance, balance_lock, print_lock, t_pc, before, after,
               d_pc, d_i, d_exit>>

sched_vars == <<algorithm, processes, quantum, s_pc, s_i, current_time, completed,
                is_completed, queue, front, in_queue, last_executed, slices, idles>>

vars == <<ipc_vars, demo_vars, sched_vars>>

\* The mutex-timing demo: number of transaction threads, the balance the
\* static initialiser gives, and txs[].amount by tx_id.
N_TX == 3

InitialBalance == 10000

txs == <<1000, 500, 1200>>

\* The demo's process image before its main runs.
DemoBoot ==
    /\ account_balance = InitialBalance
    /\ balance_lock = 0 /\ print_lock = 0
    /\ t_pc = [x \in 1 .. N_TX |-> "none"]
    /\ before = [x \in 1 .. N_TX |-> 0]
    /\ after = [x \in 1 .. N_TX |-> 0]
    /\ d_pc = "init" /\ d_i = 0 /\ d_exit = -1

\* No scheduling function has been called.
SchedOff ==
    /\ algorithm = "none" /\ processes = <<>> /\ quantum = 0
    /\ s_pc = "off" /\ s_i = 0 /\ current_time = 0 /\ completed = 0
    /\ is_completed = <<>> /\ queue = <<>> /\ front = 0 /\ in_queue = <<>>
    /\ last_executed = -1 /\ slices = <<>> /\ idles = {}

State ==
    [g_unsafe |-> g_unsafe, n |-> n, ipc |-> ipc, head |-> head, tail |-> tail,
     buf |-> buf, sem_empty |-> sem_empty, sem_full |-> sem_full,
     sem_mutex |-> sem_mutex,
     ppc |-> ppc, p_i |-> p_i, p_msg |-> p_msg, p_exit |-> p_exit,
     cpc |-> cpc, c_i |-> c_i, c_msg |-> c_msg, c_exit |-> c_exit,
     seen |-> seen, missing |-> missing, duplicates |-> duplicates,
     clock |-> clock, p_t0 |-> p_t0, c_t0 |-> c_t0, c_lat |-> c_lat,
     sent |-> sent, got |-> got, unread |-> unread, clobber |-> clobber,
     stale |-> stale, torn |-> torn, touched |-> touched,
     enq |-> enq, deq |-> deq,
     p_twaited |-> p_twaited, failed |-> failed, calls |-> calls,
     c_unsafe |-> c_unsafe, c_n |-> c_n,
     lat_sum |-> lat_sum, min_lat |-> min_lat, max_lat |-> max_lat,
     mutex_ops |-> mutex_ops, lats |-> lats, left_behind |-> left_behind]

Install(t) ==
    /\ g_unsafe' = t.g_unsafe /\ n' = t.n /\ ipc' = t.ipc
    /\ head' = t.head /\ tail' = t.tail /\ buf' = t.buf
    /\ sem_empty' = t.sem_empty /\ sem_full' = t.sem_full
    /\ sem_mutex' = t.sem_mutex
    /\ ppc' = t.ppc /\ p_i' = t.p_i /\ p_msg' = t.p_msg /\ p_exit' = t.p_exit
    /\ cpc' = t.cpc /\ c_i' = t.c_i /\ c_msg' = t.c_msg /\ c_exit' = t.c_exit
    /\ seen' = t.seen /\ missing' = t.missing /\ duplicates' = t.duplicates
    /\ clock' = t.clock /\ p_t0' = t.p_t0 /\ c_t0' = t.c_t0 /\ c_lat' = t.c_lat
    /\ sent' = t.sent /\ got' = t.got /\ unread' = t.unread
    /\ clobber' = t.clobber /\ stale' = t.stale /\ torn' = t.torn
    /\ touched' = t.touched /\ enq' = t.enq /\ deq' = t.deq
    /\ p_twaited' = t.p_twaited /\ failed' = t.failed /\ calls' = t.calls
    /\ c_unsafe' = t.c_unsafe /\ c_n' = t.c_n
    /\ lat_sum' = t.lat_sum /\ min_lat' = t.min_lat /\ max_lat' = t.max_lat
    /\ mutex_ops' = t.mutex_ops /\ lats' = t.lats
    /\ left_behind' = t.left_behind
    /\ UNCHANGED <<demo_vars, sched_vars>>

\* The variables of the ring-buffer program hold record t.
IpcHolds(t) ==
    /\ g_unsafe = t.g_unsafe /\ n = t.n /\ ipc = t.ipc
    /\ head = t.head /\ tail = t.tail /\ buf = t.buf
    /\ sem_empty = t.sem_empty /\ sem_full = t.sem_full
    /\ sem_mutex = t.sem_mutex
    /\ ppc = t.ppc /\ p_i = t.p_i /\ p_msg = t.p_msg /\ p_exit = t.p_exit
    /\ cpc = t.cpc /\ c_i = t.c_i /\ c_msg = t.c_msg /\ c_exit = t.c_exit
    /\ seen = t.seen /\ missing = t.missing /\ duplicates = t.duplicates
    /\ clock = t.clock /\ p_t0 = t.p_t0 /\ c_t0 = t.c_t0 /\ c_lat = t.c_lat
    /\ sent = t.sent /\ got = t.got /\ unread = t.unread
    /\ clobber = t.clobber /\ stale = t.stale /\ torn = t.torn
    /\ touched = t.touched /\ enq = t.enq /\ deq = t.deq
    /\ p_twaited = t.p_twaited /\ failed = t.failed /\ calls = t.calls
    /\ c_unsafe = t.c_unsafe /\ c_n = t.c_n
    /\ lat_sum = t.lat_sum /\ min_lat = t.min_lat /\ max_lat = t.max_lat
    /\ mutex_ops = t.mutex_ops /\ lats = t.lats
    /\ left_behind = t.left_behind

\* The ring-buffer program is in state t; the other programs have not been
\* started.
Holds(t) == IpcHolds(t) /\ DemoBoot /\ SchedOff

Slots == 0 .. (RING_CAP - 1)

\* A zeroed TxMsg (memset / calloc).
ZeroMsg == [tx_id |-> 0, type |-> 0, amount_pence |-> 0, t_send_us |-> 0]

\* Bug variant: the record kind is computed from the id, not from i.
MkMsg_kind_from_id(i) ==
    [tx_id |-> i + 1,
     type |-> (i + 1) % 5,
     amount_pence |-> (1000 + (i % 500)) * 100,
     t_send_us |-> 0]

\* The record the producer builds in iteration i (0 <= i < n <= INT_MAX, so
\* the uint32_t casts change nothing); p_build stamps t_send_us.
MkMsg(i) ==
    [tx_id |-> i + 1,
     type |-> i % 5,
     amount_pence |-> (1000 + (i % 500)) * 100,
     t_send_us |-> 0]

\* What a struct copy that overlapped a write of the same slot may yield.
TornMsgs(s) == {[ZeroMsg EXCEPT !.tx_id = x] : x \in 0 .. (s.n + 1)}

\* SHM_NAME, SEM_EMPTY, SEM_FULL, SEM_MUTEX.
Names == {"shm", "empty", "full", "mutex"}

\* The kernel's table of named objects as far as the four names go: which
\* of them exist, the cursors of the segment and the values of the
\* semaphores they refer to (0 for a name that does not exist).
NoLeftover ==
    [names |-> {}, head |-> 0, tail |-> 0, empty |-> 0, full |-> 0, mutex |-> 0]

\* The state of a process image before main runs, no object being left
\* behind by an earlier run.
Boot(unsafe) ==
    [g_unsafe |-> unsafe, n |-> 0, ipc |-> "absent", head |-> 0, tail |-> 0,
     buf |-> [k \in Slots |-> ZeroMsg],
     sem_empty |-> 0, sem_full |-> 0, sem_mutex |-> 0,
     ppc |-> "scanf", p_i |-> 0, p_msg |-> ZeroMsg, p_exit |-> -1,
     cpc |-> "none", c_i |-> 0, c_msg |-> ZeroMsg, c_exit |-> -1,
     seen |-> <<>>, missing |-> 0, duplicates |-> 0,
     clock |-> 0, p_t0 |-> 0, c_t0 |-> 0, c_lat |-> 0,
     sent |-> <<>>, got |-> <<>>, unread |-> [k \in Slots |-> FALSE],
     clobber |-> FALSE, stale |-> FALSE, torn |-> FALSE, touched |-> {},
     enq |-> 0, deq |-> 0,
     p_twaited |-> 0, failed |-> {}, calls |-> {},
     c_unsafe |-> 0, c_n |-> 0, lat_sum |-> 0, min_lat |-> 0, max_lat |-> 0,
     mutex_ops |-> {}, lats |-> <<>>, left_behind |-> NoLeftover]

----------------------------------------------------------------------------
(* main: input, setup, fork *)

\* What scanf("%d", &n) can deliver: its return value (items converted) and
\* the number stored; with no conversion n keeps its initial 0.
Inputs ==
    {[items |-> 0, value |-> 0]} \cup {[items |-> 1, value |-> v] : v \in -1 .. MaxN}

\* Bug variant: a count of 0 is let through.
main_scanf_accepts_zero(s) ==
    IF s.ppc # "scanf" THEN {}
    ELSE { IF inp.items # 1 \/ inp.value < 0
           THEN [s EXCEPT !.n = inp.value, !.ppc = "exited", !.p_exit = 1]
           ELSE [s EXCEPT !.n = inp.value, !.ppc = "setup"]
           : inp \in Inputs }

main_scanf(s) ==
    IF s.ppc # "scanf" THEN {}
    ELSE { IF inp.items # 1 \/ inp.value <= 0
           THEN [s EXCEPT !.n = inp.value, !.ppc = "exited", !.p_exit = 1]
           ELSE [s EXCEPT !.n = inp.value, !.ppc = "setup"]
           : inp \in Inputs }

\* Bug variant: slots-free is created one too low.
main_setup_one_too_few(s) ==
    IF s.ppc # "setup" THEN {}
    ELSE { [s EXCEPT !.failed = @ \cup {"main"},
                     !.calls = @ \cup {"cleanup_ipc", "shm_open"},
                     !.mutex_ops = @ \cup {"main.unlink"},
                     !.ppc = "exited", !.p_exit = 1],
           [s EXCEPT !.ipc = "created",
                     !.calls = @ \cup {"cleanup_ipc", "shm_open", "sem_open"},
                     !.mutex_ops = @ \cup {"main.unlink"}
                                     \cup (IF s.g_unsafe = 1 THEN {} ELSE {"main.create"}),
                     !.head = 0, !.tail = 0,
                     !.buf = [k \in Slots |-> ZeroMsg],
                     !.sem_empty = RING_CAP - 1,
                     !.sem_full = 0,
                     !.sem_mutex = IF s.g_unsafe = 1 THEN 0 ELSE 1,
                     !.ppc = "fork"] }

\* Bug variant: slots-free is created one too high.
main_setup_one_too_many(s) ==
    IF s.ppc # "setup" THEN {}
    ELSE { [s EXCEPT !.failed = @ \cup {"main"},
                     !.calls = @ \cup {"cleanup_ipc", "shm_open"},
                     !.mutex_ops = @ \cup {"main.unlink"},
                     !.ppc = "exited", !.p_exit = 1],
           [s EXCEPT !.ipc = "created",
                     !.calls = @ \cup {"cleanup_ipc", "shm_open", "sem_open"},
                     !.mutex_ops = @ \cup {"main.unlink"}
                                     \cup (IF s.g_unsafe = 1 THEN {} ELSE {"main.create"}),
                     !.head = 0, !.tail = 0,
                     !.buf = [k \in 0 .. (RING_CAP - 1) |-> ZeroMsg],
                     !.sem_empty = RING_CAP + 1,
                     !.sem_full = 0,
                     !.sem_mutex = IF s.g_unsafe = 1 THEN 0 ELSE 1,
                     !.ppc = "fork"] }

\* Bug variant: only the segment is unlinked.
cleanup_ipc_keeps_semaphores(table) ==
    [table EXCEPT !.names = @ \ {"shm"}, !.head = 0, !.tail = 0]

\* shm_unlink and the three sem_unlink calls: none of the names exists any
\* longer (a process that still has an object open keeps its own object).
cleanup_ipc(table) == NoLeftover

\* sem_open(name, O_CREAT, 0600, value): the value of the semaphore the name
\* refers to afterwards.  O_EXCL is not given, so an existing semaphore is
\* opened as it is and value is ignored.
sem_open(table, name, value) ==
    IF name \in table.names THEN table[name] ELSE value

\* cleanup_ipc, shm_open .. memset, the sem_open calls.  Any of them may fail
\* (die): the model then leaves no object behind.  memset zeroes the cursors
\* and the slots whatever the segment held.
main_setup(s) ==
    IF s.ppc # "setup" THEN {}
    ELSE { [s EXCEPT !.failed = @ \cup {"main"},
                     !.calls = @ \cup {"cleanup_ipc", "shm_open"},
                     !.mutex_ops = @ \cup {"main.unlink"},
                     !.ppc = "exited", !.p_exit = 1],
           [s EXCEPT !.ipc = "created",
                     !.calls = @ \cup {"cleanup_ipc", "shm_open", "sem_open"},
                     !.mutex_ops = @ \cup {"main.unlink"}
                                     \cup (IF s.g_unsafe = 1 THEN {} ELSE {"main.create"}),
                     !.head = 0, !.tail = 0,
                     !.buf = [k \in Slots |-> ZeroMsg],
                     !.sem_empty = sem_open(cleanup_ipc(s.left_behind), "empty", RING_CAP),
                     !.sem_full = sem_open(cleanup_ipc(s.left_behind), "full", 0),
                     !.sem_mutex = IF s.g_unsafe = 1 THEN 0
                                   ELSE sem_open(cleanup_ipc(s.left_behind), "mutex", 1),
                     !.ppc = "fork"] }

\* Where the producer's for loop goes with index i.
p_loop(s, i) == IF i < s.n THEN "t0" ELSE "waitpid"

\* snprintf("%d"): the decimal digits of a positive int, most significant
\* first.
RECURSIVE decimal(_)
decimal(x) == IF x < 10 THEN <<x>> ELSE Append(decimal(x \div 10), x % 10)

\* atoi on a string of digits.
RECURSIVE atoi(_)
atoi(digits) ==
    IF digits = <<>> THEN 0
    ELSE 10 * atoi(SubSeq(digits, 1, Len(digits) - 1)) + digits[Len(digits)]

\* Bug variant: the child is always launched with --child.
child_args_always_safe(unsafe, cnt) ==
    [flag |-> "--child", count |-> decimal(cnt)]

\* IPC.c: the arguments the second instance is started with.
child_args(unsafe, cnt) ==
    [flag |-> IF unsafe = 1 THEN "--unsafe_child" ELSE "--child",
     count |-> decimal(cnt)]

\* The mode and count the consumer runs with: after fork() its own copies
\* of g_unsafe and n (IPC_LINUX.c), or what main of the second instance
\* makes of its arguments (IPC.c).
child_image(s) ==
    { [unsafe |-> s.g_unsafe, cnt |-> s.n],
      [unsafe |-> IF child_args(s.g_unsafe, s.n).flag = "--unsafe_child" THEN 1 ELSE 0,
       cnt |-> atoi(child_args(s.g_unsafe, s.n).count)] }

\* Bug variant: the result of fork is not tested.
main_fork_unchecked(s) ==
    IF s.ppc # "fork" THEN {}
    ELSE { [s EXCEPT !.failed = @ \cup {"main"},
                     !.calls = @ \cup {"fork"},
                     !.ppc = p_loop(s, 0), !.p_i = 0] }
           \cup
           { [s EXCEPT !.calls = @ \cup {"fork"},
                       !.c_unsafe = im.unsafe, !.c_n = im.cnt,
                       !.ppc = p_loop(s, 0), !.p_i = 0, !.cpc = "attach"]
             : im \in child_image(s) }

\* fork(): on failure die, in the parent the loop starts, the child enters
\* consumer_process(n).
main_fork(s) ==
    IF s.ppc # "fork" THEN {}
    ELSE { [s EXCEPT !.failed = @ \cup {"main"},
                     !.calls = @ \cup {"fork"},
                     !.ppc = "exited", !.p_exit = 1] }
           \cup
           { [s EXCEPT !.calls = @ \cup {"fork"},
                       !.c_unsafe = im.unsafe, !.c_n = im.cnt,
                       !.ppc = p_loop(s, 0), !.p_i = 0, !.cpc = "attach"]
             : im \in child_image(s) }

----------------------------------------------------------------------------
(* main: the producer loop *)

\* now_us() can return a later value each time it is called.
tick(s) == IF s.clock < MaxClock THEN {[s EXCEPT !.clock = @ + 1]} ELSE {}

\* uint64_t t0 = now_us()
p_now_t0(s) ==
    IF s.ppc = "t0"
    THEN {[s EXCEPT !.p_t0 = s.clock, !.ppc = "sem_wait_empty"]}
    ELSE {}

\* Bug variant: the wait on slots-free gives up after a timeout and the
\* producer goes on.
p_sem_wait_empty_timeout(s) ==
    IF s.ppc = "sem_wait_empty"
    THEN {[s EXCEPT !.sem_empty = IF @ > 0 THEN @ - 1 ELSE 0,
                    !.p_twaited = s.clock,
                    !.ppc = IF s.g_unsafe = 1 THEN "build" ELSE "sem_wait_mutex"]}
    ELSE {}

\* Bug variant: the producer does not block on a full ring.
p_sem_wait_empty_noblock(s) ==
    IF s.ppc = "sem_wait_empty"
    THEN {[s EXCEPT !.sem_empty = @ - 1,
                    !.p_twaited = s.clock,
                    !.ppc = IF s.g_unsafe = 1 THEN "build" ELSE "sem_wait_mutex"]}
    ELSE {}

p_sem_wait_empty(s) ==
    IF s.ppc = "sem_wait_empty" /\ s.sem_empty > 0
    THEN {[s EXCEPT !.sem_empty = @ - 1,
                    !.p_twaited = s.clock,
                    !.ppc = IF s.g_unsafe = 1 THEN "build" ELSE "sem_wait_mutex"]}
    ELSE {}

p_sem_wait_mutex(s) ==
    IF s.ppc = "sem_wait_mutex" /\ s.sem_mutex > 0
    THEN {[s EXCEPT !.sem_mutex = @ - 1, !.p_twaited = s.clock,
                    !.mutex_ops = @ \cup {"main.wait"},
                    !.ppc = "build"]}
    ELSE {}

\* Bug variant: the record is stamped with t0, read before the waits.
p_build_stamps_t0(s) ==
    IF s.ppc = "build"
    THEN {[s EXCEPT !.p_msg = [MkMsg(s.p_i) EXCEPT !.t_send_us = s.p_t0],
                    !.ppc = "write"]}
    ELSE {}

\* msg.tx_id = .. snprintf: the record is built, t_send_us = now_us().
p_build(s) ==
    IF s.ppc = "build"
    THEN {[s EXCEPT !.p_msg = [MkMsg(s.p_i) EXCEPT !.t_send_us = s.clock],
                    !.ppc = "write"]}
    ELSE {}

\* ring->buf[ring->head] = msg is a structure copy, not one atomic store:
\* it starts here and ends in p_write_end.
p_write(s) ==
    IF s.ppc = "write"
    THEN {[s EXCEPT !.clobber = @ \/ s.unread[s.head]
                                  \/ (s.cpc = "copy_end" /\ s.tail = s.head),
                    !.torn = @ \/ (s.cpc = "copy_end" /\ s.tail = s.head),
                    !.unread[s.head] = FALSE,
                    !.ppc = "write_end"]}
    ELSE {}

\* Bug variant: slots-filled is signalled as soon as the slot is written,
\* before head is advanced and the mutex released.
p_write_end_signals(s) ==
    IF s.ppc = "write_end"
    THEN {[s EXCEPT !.buf[s.head] = s.p_msg,
                    !.unread[s.head] = TRUE,
                    !.sent = Append(@, s.p_msg),
                    !.sem_full = @ + 1,
                    !.ppc = "head"]}
    ELSE {}

p_write_end(s) ==
    IF s.ppc = "write_end"
    THEN {[s EXCEPT !.buf[s.head] = s.p_msg,
                    !.unread[s.head] = TRUE,
                    !.sent = Append(@, s.p_msg),
                    !.ppc = "head"]}
    ELSE {}

\* Bug variant: the cursor is advanced without the modulo.
next_index_nowrap(x) == x + 1

\* ring->head = (ring->head + 1) % RING_CAP
next_index(x) == (x + 1) % RING_CAP

p_head(s) ==
    IF s.ppc = "head"
    THEN {[s EXCEPT !.head = next_index(s.head),
                    !.enq = @ + 1,
                    !.ppc = IF s.g_unsafe = 1 THEN "sem_post_full"
                                              ELSE "sem_post_mutex"]}
    ELSE {}

p_sem_post_mutex(s) ==
    IF s.ppc = "sem_post_mutex"
    THEN {[s EXCEPT !.sem_mutex = @ + 1,
                    !.mutex_ops = @ \cup {"main.post"},
                    !.ppc = "sem_post_full"]}
    ELSE {}

\* Bug variant: the producer announces the record twice.
p_sem_post_full_twice(s) ==
    IF s.ppc = "sem_post_full"
    THEN {[s EXCEPT !.sem_full = @ + 2,
                    !.p_i = s.p_i + 1,
                    !.ppc = p_loop(s, s.p_i + 1)]}
    ELSE {}

\* Bug variant: the producer does not announce the record.
p_sem_post_full_lost(s) ==
    IF s.ppc = "sem_post_full"
    THEN {[s EXCEPT !.p_i = s.p_i + 1,
                    !.ppc = IF s.p_i + 1 < s.n THEN "t0" ELSE "waitpid"]}
    ELSE {}

\* sem_post(sem_full), the statistics, i++ and the loop test.
p_sem_post_full(s) ==
    IF s.ppc = "sem_post_full"
    THEN {[s EXCEPT !.sem_full = @ + 1,
                    !.p_i = s.p_i + 1,
                    !.ppc = p_loop(s, s.p_i + 1)]}
    ELSE {}

\* Bug variant: main does not wait for the child.
main_waitpid_nowait(s) ==
    IF s.ppc = "waitpid"
    THEN {[s EXCEPT !.ppc = "teardown"]}
    ELSE {}

\* waitpid(child, &status, 0): returns once the child has exited; status is
\* not looked at.
main_waitpid(s) ==
    IF s.ppc = "waitpid" /\ s.cpc = "exited"
    THEN {[s EXCEPT !.ppc = "teardown"]}
    ELSE {}

\* munmap, close, sem_close, cleanup_ipc, return 0.
main_teardown(s) ==
    IF s.ppc = "teardown"
    THEN {[s EXCEPT !.ipc = "unlinked",
                    !.mutex_ops = @ \cup {"main.unlink"}
                                    \cup (IF s.g_unsafe = 1 THEN {} ELSE {"main.close"}),
                    !.ppc = "exited", !.p_exit = 0]}
    ELSE {}

----------------------------------------------------------------------------
(* consumer_process *)

\* Where the consumer's for loop goes with index i.
c_loop(s, i) == IF i < s.c_n THEN "t0" ELSE "audit"

\* shm_open, mmap, the sem_open calls, calloc(n + 1, 1) and the initial
\* values of the aggregates.  Any of the calls may fail (die: exit(1)),
\* before or after sem_open(SEM_MUTEX, 0), which is called in both modes.
c_attach(s) ==
    IF s.cpc # "attach" THEN {}
    ELSE { [s EXCEPT !.failed = @ \cup {"consumer"},
                     !.cpc = "exited", !.c_exit = 1],
           [s EXCEPT !.failed = @ \cup {"consumer"},
                     !.mutex_ops = @ \cup {"consumer.open"},
                     !.cpc = "exited", !.c_exit = 1],
           [s EXCEPT !.seen = [k \in 0 .. s.c_n |-> 0],
                     !.mutex_ops = @ \cup {"consumer.open"},
                     !.lat_sum = 0, !.min_lat = LLONG_MAX, !.max_lat = 0,
                     !.c_i = 0,
                     !.cpc = c_loop(s, 0)] }

\* uint64_t t0 = now_us()
c_now_t0(s) ==
    IF s.cpc = "t0"
    THEN {[s EXCEPT !.c_t0 = s.clock, !.cpc = "sem_wait_full"]}
    ELSE {}

\* Bug variant: unsafe mode leaves out the wait on slots-filled as well.
c_sem_wait_full_unsafe_skips(s) ==
    IF s.cpc = "sem_wait_full" /\ (s.c_unsafe = 1 \/ s.sem_full > 0)
    THEN {[s EXCEPT !.sem_full = IF s.c_unsafe = 1 THEN @ ELSE @ - 1,
                    !.cpc = IF s.c_unsafe = 1 THEN "copy" ELSE "sem_wait_mutex"]}
    ELSE {}

\* Bug variant: the consumer does not block on an empty ring.
c_sem_wait_full_noblock(s) ==
    IF s.cpc = "sem_wait_full"
    THEN {[s EXCEPT !.sem_full = @ - 1,
                    !.cpc = IF s.c_unsafe = 1 THEN "copy" ELSE "sem_wait_mutex"]}
    ELSE {}

c_sem_wait_full(s) ==
    IF s.cpc = "sem_wait_full" /\ s.sem_full > 0
    THEN {[s EXCEPT !.sem_full = @ - 1,
                    !.cpc = IF s.c_unsafe = 1 THEN "copy" ELSE "sem_wait_mutex"]}
    ELSE {}

\* Bug variant: the consumer does not block on a held mutex.
c_sem_wait_mutex_noblock(s) ==
    IF s.cpc = "sem_wait_mutex"
    THEN {[s EXCEPT !.sem_mutex = IF @ > 0 THEN @ - 1 ELSE 0,
                    !.mutex_ops = @ \cup {"consumer.wait"},
                    !.cpc = "copy"]}
    ELSE {}

c_sem_wait_mutex(s) ==
    IF s.cpc = "sem_wait_mutex" /\ s.sem_mutex > 0
    THEN {[s EXCEPT !.sem_mutex = @ - 1,
                    !.mutex_ops = @ \cup {"consumer.wait"},
                    !.cpc = "copy"]}
    ELSE {}

\* TxMsg msg = ring->buf[ring->tail] is a structure copy: it starts here and
\* ends in c_copy_end.
c_copy(s) ==
    IF s.cpc = "copy"
    THEN {[s EXCEPT !.stale = @ \/ ~s.unread[s.tail],
                    !.torn = (s.ppc = "write_end" /\ s.head = s.tail),
                    !.cpc = "copy_end"]}
    ELSE {}

\* A copy that overlapped a write of the same slot is a data race: the copy
\* may hold anything.
c_copy_end(s) ==
    IF s.cpc = "copy_end"
    THEN { [s EXCEPT !.c_msg = m,
                     !.got = Append(@, m),
                     !.unread[s.tail] = FALSE,
                     !.torn = FALSE,
                     !.cpc = "tail"]
           : m \in IF s.torn THEN TornMsgs(s) ELSE {s.buf[s.tail]} }
    ELSE {}

\* Bug variant: the consumer advances head instead of tail.
c_tail_moves_head(s) ==
    IF s.cpc = "tail"
    THEN {[s EXCEPT !.head = next_index(s.head),
                    !.deq = @ + 1,
                    !.cpc = IF s.c_unsafe = 1 THEN "sem_post_empty"
                                              ELSE "sem_post_mutex"]}
    ELSE {}

\* Bug variant: the consumer leaves tail where it is.
c_tail_stuck(s) ==
    IF s.cpc = "tail"
    THEN {[s EXCEPT !.deq = @ + 1,
                    !.cpc = IF s.c_unsafe = 1 THEN "sem_post_empty"
                                              ELSE "sem_post_mutex"]}
    ELSE {}

c_tail(s) ==
    IF s.cpc = "tail"
    THEN {[s EXCEPT !.tail = next_index(s.tail),
                    !.deq = @ + 1,
                    !.cpc = IF s.c_unsafe = 1 THEN "sem_post_empty"
                                              ELSE "sem_post_mutex"]}
    ELSE {}

c_sem_post_mutex(s) ==
    IF s.cpc = "sem_post_mutex"
    THEN {[s EXCEPT !.sem_mutex = @ + 1,
                    !.mutex_ops = @ \cup {"consumer.post"},
                    !.cpc = "sem_post_empty"]}
    ELSE {}

\* Bug variant: the consumer signals slots-filled instead of slots-free.
c_sem_post_empty_wrong_sem(s) ==
    IF s.cpc = "sem_post_empty"
    THEN {[s EXCEPT !.sem_full = @ + 1, !.cpc = "validate"]}
    ELSE {}

\* Bug variant: the consumer gives the slot back twice.
c_sem_post_empty_twice(s) ==
    IF s.cpc = "sem_post_empty"
    THEN {[s EXCEPT !.sem_empty = @ + 2, !.cpc = "validate"]}
    ELSE {}

\* Bug variant: the consumer does not give the slot back.
c_sem_post_empty_lost(s) ==
    IF s.cpc = "sem_post_empty"
    THEN {[s EXCEPT !.cpc = "validate"]}
    ELSE {}

c_sem_post_empty(s) ==
    IF s.cpc = "sem_post_empty"
    THEN {[s EXCEPT !.sem_empty = @ + 1, !.cpc = "validate"]}
    ELSE {}

\* Bug variant: tx_id is used as an index without the range test.
seen_index_unchecked(tx_id, cnt) == {tx_id}

\* The indices of seen[] that the validation of tx_id reads and writes.
seen_index(tx_id, cnt) == IF tx_id >= 1 /\ tx_id <= cnt THEN {tx_id} ELSE {}

\* seen[msg.tx_id] += 1 on a uint8_t, for the indices that lie in the table.
bump(tbl, idx) ==
    [k \in DOMAIN tbl |-> IF k \in idx THEN (tbl[k] + 1) % U8 ELSE tbl[k]]

\* Bug variant: the latency is taken from t0, read before the wait.
latency_from_t0(t0, t1, msg) == t0 - msg.t_send_us

\* uint64_t lat = t1 - msg.t_send_us
latency(t0, t1, msg) == t1 - msg.t_send_us

\* if (lat < min_lat) min_lat = lat;  if (lat > max_lat) max_lat = lat;
lower(m, x) == IF x < m THEN x ELSE m

higher(m, x) == IF x > m THEN x ELSE m

\* t1 = now_us(), the statistics, the validation of tx_id, i++ and the loop
\* test.
c_validate(s) ==
    IF s.cpc = "validate"
    THEN {[s EXCEPT !.c_lat = latency(s.c_t0, s.clock, s.c_msg),
                    !.lat_sum = @ + latency(s.c_t0, s.clock, s.c_msg),
                    !.min_lat = lower(@, latency(s.c_t0, s.clock, s.c_msg)),
                    !.max_lat = higher(@, latency(s.c_t0, s.clock, s.c_msg)),
                    !.lats = Append(@, latency(s.c_t0, s.clock, s.c_msg)),
                    !.seen = bump(s.seen, seen_index(s.c_msg.tx_id, s.c_n)),
                    !.touched = @ \cup seen_index(s.c_msg.tx_id, s.c_n),
                    !.c_i = s.c_i + 1,
                    !.cpc = c_loop(s, s.c_i + 1)]}
    ELSE {}

\* for (id = 1; id <= n; id++) { missing, duplicates }: the pair
\* <<missing, duplicates>> that the iterations id..cnt add to counters that
\* start at 0. Both counters are sums of one term per id, so the range is
\* summed as its lower half plus its upper half, which keeps the evaluation
\* shallow for a 256-entry table.
RECURSIVE audit(_, _, _)
audit(tbl, id, cnt) ==
    IF id > cnt THEN <<0, 0>>
    ELSE IF id = cnt
         THEN <<IF tbl[id] = 0 THEN 1 ELSE 0,
                IF tbl[id] > 1 THEN tbl[id] - 1 ELSE 0>>
         ELSE <<audit(tbl, id, (id + cnt) \div 2)[1]
                    + audit(tbl, (id + cnt) \div 2 + 1, cnt)[1],
                audit(tbl, id, (id + cnt) \div 2)[2]
                    + audit(tbl, (id + cnt) \div 2 + 1, cnt)[2]>>

\* Bug variant: a finding of the audit becomes the exit code.
c_audit_fails_on_finding(s) ==
    IF s.cpc = "audit"
    THEN {[s EXCEPT !.missing = audit(s.seen, 1, s.c_n)[1],
                    !.duplicates = audit(s.seen, 1, s.c_n)[2],
                    !.mutex_ops = @ \cup (IF s.c_unsafe = 1 THEN {} ELSE {"consumer.close"}),
                    !.cpc = "exited",
                    !.c_exit = IF audit(s.seen, 1, s.c_n) = <<0, 0>> THEN 0 ELSE 1]}
    ELSE {}

\* The audit loop, the report, the detach calls and exit(0).
c_audit(s) ==
    IF s.cpc = "audit"
    THEN {[s EXCEPT !.missing = audit(s.seen, 1, s.c_n)[1],
                    !.duplicates = audit(s.seen, 1, s.c_n)[2],
                    !.mutex_ops = @ \cup (IF s.c_unsafe = 1 THEN {} ELSE {"consumer.close"}),
                    !.cpc = "exited", !.c_exit = 0]}
    ELSE {}

----------------------------------------------------------------------------
(* The program *)

Init == \E u \in {0, 1} : Holds(Boot(u))

Scanf == \E t \in main_scanf(State) : Install(t)
Setup == \E t \in main_setup(State) : Install(t)
Fork == \E t \in main_fork(State) : Install(t)
PNowT0 == \E t \in p_now_t0(State) : Install(t)
PWaitEmpty == \E t \in p_sem_wait_empty(State) : Install(t)
PWaitMutex == \E t \in p_sem_wait_mutex(State) : Install(t)
PBuild == \E t \in p_build(State) : Install(t)
PWrite == \E t \in p_write(State) : Install(t)
PWriteEnd == \E t \in p_write_end(State) : Install(t)
PHead == \E t \in p_head(State) : Install(t)
PPostMutex == \E t \in p_sem_post_mutex(State) : Install(t)
PPostFull == \E t \in p_sem_post_full(State) : Install(t)
Waitpid == \E t \in main_waitpid(State) : Install(t)
Teardown == \E t \in main_teardown(State) : Install(t)

CAttach == \E t \in c_attach(State) : Install(t)
CNowT0 == \E t \in c_now_t0(State) : Install(t)
CWaitFull == \E t \in c_sem_wait_full(State) : Install(t)
CWaitMutex == \E t \in c_sem_wait_mutex(State) : Install(t)
CCopy == \E t \in c_copy(State) : Install(t)
CCopyEnd == \E t \in c_copy_end(State) : Install(t)
CTail == \E t \in c_tail(State) : Install(t)
CPostMutex == \E t \in c_sem_post_mutex(State) : Install(t)
CPostEmpty == \E t \in c_sem_post_empty(State) : Install(t)
CValidate == \E t \in c_validate(State) : Install(t)
CAudit == \E t \in c_audit(State) : Install(t)

Producer ==
    \/ Scanf \/ Setup \/ Fork
    \/ PNowT0 \/ PWaitEmpty \/ PWaitMutex \/ PBuild \/ PWrite \/ PWriteEnd
    \/ PHead \/ PPostMutex \/ PPostFull
    \/ Waitpid \/ Teardown

Consumer ==
    \/ CAttach
    \/ CNowT0 \/ CWaitFull \/ CWaitMutex \/ CCopy \/ CCopyEnd \/ CTail
    \/ CPostMutex \/ CPostEmpty \/ CValidate \/ CAudit

Next == Producer \/ Consumer

Spec == Init /\ [][Next]_vars

\* Both processes are scheduled by the kernel: a process that can run a step
\* for ever does run.
FairSpec == Spec /\ WF_vars(Producer) /\ WF_vars(Consumer)

----------------------------------------------------------------------------
(* The states reachable from a given state, enumerated *)

\* Every state one step of either process leads to from s: the steps of Next.
Succ(s) ==
    main_scanf(s) \cup main_setup(s) \cup main_fork(s)
    \cup p_now_t0(s)
    \cup p_sem_wait_empty(s) \cup p_sem_wait_mutex(s) \cup p_build(s)
    \cup p_write(s) \cup p_write_end(s) \cup p_head(s)
    \cup p_sem_post_mutex(s) \cup p_sem_post_full(s)
    \cup main_waitpid(s) \cup main_teardown(s)
    \cup c_attach(s) \cup c_now_t0(s)
    \cup c_sem_wait_full(s) \cup c_sem_wait_mutex(s) \cup c_copy(s)
    \cup c_copy_end(s) \cup c_tail(s)
    \cup c_sem_post_mutex(s) \cup c_sem_post_empty(s) \cup c_validate(s)
    \cup c_audit(s)

RECURSIVE Closure(_, _)
Closure(known, frontier) ==
    IF frontier = {} THEN known
    ELSE LET new == (UNION {Succ(s) : s \in frontier}) \ known
         IN  Closure(known \cup new, new)

\* Every state the program can reach from s.
Reachable(s) == Closure({s}, {s})

\* The steps of the producer loop from s.
PSucc(s) ==
    p_now_t0(s) \cup p_sem_wait_empty(s) \cup p_sem_wait_mutex(s) \cup p_build(s)
    \cup p_write(s) \cup p_write_end(s) \cup p_head(s)
    \cup p_sem_post_mutex(s) \cup p_sem_post_full(s)

\* Where the producer loop gets from s while the consumer does not run.
RECURSIVE PRun(_)
PRun(s) == IF PSucc(s) = {} THEN s ELSE PRun(CHOOSE t \in PSucc(s) : TRUE)

----------------------------------------------------------------------------
(* The consumer against arbitrary ring content *)

\* The states right after a successful setup and fork, for a given mode and
\* record count.
Forked(unsafe, cnt) ==
    UNION { UNION { main_fork(t2) : t2 \in main_setup(t1) }
            : t1 \in {t \in main_scanf(Boot(unsafe)) : t.n = cnt} }

InitCorrupt ==
    \E u \in {0, 1}, cnt \in 1 .. MaxCorruptN :
        \E t \in {f \in Forked(u, cnt) : f.cpc = "attach"} : Holds(t)

\* The record reaches the ring with an arbitrary tx_id (what the consumer
\* has to tolerate, whatever produced it).
PBuildAny ==
    \E t \in p_build(State), x \in 0 .. (n + 1) :
        Install([t EXCEPT !.p_msg.tx_id = x])

NextCorrupt ==
    \/ PNowT0 \/ PWaitEmpty \/ PWaitMutex \/ PBuildAny \/ PWrite \/ PWriteEnd
    \/ PHead \/ PPostMutex \/ PPostFull \/ Waitpid \/ Teardown
    \/ CAttach \/ CNowT0 \/ CWaitFull \/ CWaitMutex \/ CCopy \/ CCopyEnd \/ CTail
    \/ CPostMutex \/ CPostEmpty \/ CValidate \/ CAudit

SpecCorrupt == InitCorrupt /\ [][NextCorrupt]_vars

----------------------------------------------------------------------------
(* The two loops under a running clock *)

InitClock ==
    \E u \in {0, 1}, cnt \in 1 .. MaxClockN :
        \E t \in {f \in Forked(u, cnt) : f.cpc = "attach"} : Holds(t)

Tick == \E t \in tick(State) : Install(t)

NextClock ==
    \/ Tick
    \/ PNowT0 \/ PWaitEmpty \/ PWaitMutex \/ PBuild \/ PWrite \/ PWriteEnd
    \/ PHead \/ PPostMutex \/ PPostFull \/ Waitpid \/ Teardown
    \/ CAttach \/ CNowT0 \/ CWaitFull \/ CWaitMutex \/ CCopy \/ CCopyEnd \/ CTail
    \/ CPostMutex \/ CPostEmpty \/ CValidate \/ CAudit

SpecClock == InitClock /\ [][NextClock]_vars

----------------------------------------------------------------------------
(* A run that finds objects of an earlier run under the four names *)

\* What an earlier run can have left behind: any of the names, the head
\* cursor at either end of the ring, the semaphores empty or full, the
\* mutex held or free.
Leftovers ==
    { l \in [names : SUBSET Names,
             head : {0, RING_CAP - 1}, tail : {0},
             empty : {0, RING_CAP}, full : {0, RING_CAP}, mutex : {0, 1}] :
        /\ "shm" \notin l.names => (l.head = 0 /\ l.tail = 0)
        /\ "empty" \notin l.names => l.empty = 0
        /\ "full" \notin l.names => l.full = 0
        /\ "mutex" \notin l.names => l.mutex = 0 }

\* main has read a valid count and stands before cleanup_ipc.
InitLeftover ==
    \E u \in {0, 1}, cnt \in {1, RING_CAP}, l \in Leftovers :
        \E t \in {f \in main_scanf(Boot(u)) : f.n = cnt} :
            Holds([t EXCEPT !.left_behind = l])

NextLeftover ==
    \/ Setup \/ Fork
    \/ PNowT0 \/ PWaitEmpty \/ PWaitMutex \/ PBuild \/ PWrite \/ PWriteEnd
    \/ PHead \/ PPostMutex \/ PPostFull \/ Waitpid \/ Teardown
    \/ CAttach \/ CNowT0 \/ CWaitFull \/ CWaitMutex \/ CCopy \/ CCopyEnd \/ CTail
    \/ CPostMutex \/ CPostEmpty \/ CValidate \/ CAudit

SpecLeftover == InitLeftover /\ [][NextLeftover]_vars

----------------------------------------------------------------------------
(* The consumer's validation and audit on an arbitrary stream of ids *)

\* The record counts explored: the small ones, and the least one at which a
\* uint8_t counter can come back to 0.
AuditCounts == (1 .. MaxCorruptN) \cup {U8}

\* The ids the stream is made of: for a small count any id from 0 to n + 1,
\* for the large one the same id over and over.
AuditIds(cnt) == IF cnt <= MaxCorruptN THEN 0 .. (cnt + 1) ELSE {1}

\* consumer_process(n) is entered while main stands after its loop.
InitAudit ==
    \E cnt \in AuditCounts :
        Holds([Boot(0) EXCEPT !.n = cnt, !.c_n = cnt, !.ppc = "waitpid",
                              !.cpc = "attach"])

\* One pass through lines 94-111 handing the loop body a record with id x.
c_receive_any(s, x) ==
    IF s.cpc = "t0"
    THEN {[s EXCEPT !.c_msg = [ZeroMsg EXCEPT !.tx_id = x],
                    !.got = Append(@, [ZeroMsg EXCEPT !.tx_id = x]),
                    !.cpc = "validate"]}
    ELSE {}

CReceiveAny == \E x \in AuditIds(n) : \E t \in c_receive_any(State, x) : Install(t)

NextAudit == CAttach \/ CReceiveAny \/ CValidate \/ CAudit

SpecAudit == InitAudit /\ [][NextAudit]_vars

----------------------------------------------------------------------------
(* The consumer's latency aggregation on arbitrary send stamps *)

InitMetrics ==
    \E cnt \in 1 .. MaxCorruptN :
        Holds([Boot(0) EXCEPT !.n = cnt, !.c_n = cnt, !.ppc = "waitpid",
                              !.cpc = "attach"])

\* One pass through lines 94-111 handing the loop body the next record,
\* stamped x by a producer whose gettimeofday() need not agree with the
\* consumer's.
c_receive_stamped(s, x) ==
    IF s.cpc = "t0"
    THEN {[s EXCEPT !.c_msg = [MkMsg(s.c_i) EXCEPT !.t_send_us = x],
                    !.got = Append(@, [MkMsg(s.c_i) EXCEPT !.t_send_us = x]),
                    !.c_t0 = s.clock,
                    !.cpc = "validate"]}
    ELSE {}

CReceiveStamped ==
    \E x \in 0 .. MaxClock : \E t \in c_receive_stamped(State, x) : Install(t)

NextMetrics == Tick \/ CAttach \/ CReceiveStamped \/ CValidate \/ CAudit

SpecMetrics == InitMetrics /\ [][NextMetrics]_vars

----------------------------------------------------------------------------
(* The mutex-timing demo: three threads subtract from one balance *)

\* Bug variant: the lock is handed out even when it is held.
pthread_mutex_lock_noblock(lock, me) == {me}

\* pthread_mutex_lock (EnterCriticalSection): the owner afterwards; blocks,
\* that is yields nothing, while the mutex is held.
pthread_mutex_lock(lock, me) == IF lock = 0 THEN {me} ELSE {}

\* pthread_mutex_init x 2, the header lines, program_start.
DemoStart ==
    /\ d_pc = "init"
    /\ d_pc' = "create" /\ d_i' = 0
    /\ UNCHANGED <<account_balance, balance_lock, print_lock, t_pc, before, after,
                   d_exit>>
    /\ UNCHANGED <<ipc_vars, sched_vars>>

\* One turn of the pthread_create loop: the thread for txs[i] starts, or the
\* call fails and main returns 1, which ends the process and its threads.
DemoCreate ==
    /\ d_pc = "create" /\ d_i < N_TX
    /\ \/ /\ t_pc' = [t_pc EXCEPT ![d_i + 1] = "lock"]
          /\ d_i' = IF d_i + 1 < N_TX THEN d_i + 1 ELSE 0
          /\ d_pc' = IF d_i + 1 < N_TX THEN "create" ELSE "join"
          /\ d_exit' = d_exit
       \/ /\ d_pc' = "exited" /\ d_exit' = 1
          /\ UNCHANGED <<t_pc, d_i>>
    /\ UNCHANGED <<account_balance, balance_lock, print_lock, before, after>>
    /\ UNCHANGED <<ipc_vars, sched_vars>>

\* The process is alive: main has not returned.
DemoAlive == d_pc # "exited"

\* pthread_mutex_lock(&balance_lock)
TLock(x) ==
    /\ DemoAlive /\ t_pc[x] = "lock"
    /\ \E owner \in pthread_mutex_lock(balance_lock, x) : balance_lock' = owner
    /\ t_pc' = [t_pc EXCEPT ![x] = "read"]
    /\ UNCHANGED <<account_balance, print_lock, before, after, d_pc, d_i, d_exit>>
    /\ UNCHANGED <<ipc_vars, sched_vars>>

\* double before = account_balance; then usleep(2000)
TRead(x) ==
    /\ DemoAlive /\ t_pc[x] = "read"
    /\ before' = [before EXCEPT ![x] = account_balance]
    /\ t_pc' = [t_pc EXCEPT ![x] = "write"]
    /\ UNCHANGED <<account_balance, balance_lock, print_lock, after, d_pc, d_i, d_exit>>
    /\ UNCHANGED <<ipc_vars, sched_vars>>

\* double after = before - tx->amount; account_balance = after
TWrite(x) ==
    /\ DemoAlive /\ t_pc[x] = "write"
    /\ after' = [after EXCEPT ![x] = before[x] - txs[x]]
    /\ account_balance' = before[x] - txs[x]
    /\ t_pc' = [t_pc EXCEPT ![x] = "unlock"]
    /\ UNCHANGED <<balance_lock, print_lock, before, d_pc, d_i, d_exit>>
    /\ UNCHANGED <<ipc_vars, sched_vars>>

\* pthread_mutex_unlock(&balance_lock), then the metrics of this thread
TUnlock(x) ==
    /\ DemoAlive /\ t_pc[x] = "unlock"
    /\ balance_lock' = 0
    /\ t_pc' = [t_pc EXCEPT ![x] = "print_lock"]
    /\ UNCHANGED <<account_balance, print_lock, before, after, d_pc, d_i, d_exit>>
    /\ UNCHANGED <<ipc_vars, sched_vars>>

\* pthread_mutex_lock(&print_lock)
TPrintLock(x) ==
    /\ DemoAlive /\ t_pc[x] = "print_lock"
    /\ \E owner \in pthread_mutex_lock(print_lock, x) : print_lock' = owner
    /\ t_pc' = [t_pc EXCEPT ![x] = "print"]
    /\ UNCHANGED <<account_balance, balance_lock, before, after, d_pc, d_i, d_exit>>
    /\ UNCHANGED <<ipc_vars, sched_vars>>

\* the printf block, pthread_mutex_unlock(&print_lock), return NULL
TPrint(x) ==
    /\ DemoAlive /\ t_pc[x] = "print"
    /\ print_lock' = 0
    /\ t_pc' = [t_pc EXCEPT ![x] = "returned"]
    /\ UNCHANGED <<account_balance, balance_lock, before, after, d_pc, d_i, d_exit>>
    /\ UNCHANGED <<ipc_vars, sched_vars>>

\* One turn of the pthread_join loop: waits until thread i has returned.
DemoJoin ==
    /\ d_pc = "join" /\ d_i < N_TX
    /\ t_pc[d_i + 1] = "returned"
    /\ d_i' = d_i + 1
    /\ d_pc' = IF d_i + 1 < N_TX THEN "join" ELSE "summary"
    /\ UNCHANGED <<account_balance, balance_lock, print_lock, t_pc, before, after,
                   d_exit>>
    /\ UNCHANGED <<ipc_vars, sched_vars>>

\* The summary (it prints account_balance), pthread_mutex_destroy x 2,
\* return 0.
DemoSummary ==
    /\ d_pc = "summary"
    /\ d_pc' = "exited" /\ d_exit' = 0
    /\ UNCHANGED <<account_balance, balance_lock, print_lock, t_pc, before, after,
                   d_i>>
    /\ UNCHANGED <<ipc_vars, sched_vars>>

Transaction(x) ==
    TLock(x) \/ TRead(x) \/ TWrite(x) \/ TUnlock(x) \/ TPrintLock(x) \/ TPrint(x)

InitDemo == IpcHolds(Boot(0)) /\ DemoBoot /\ SchedOff

NextDemo ==
    \/ DemoStart \/ DemoCreate \/ DemoJoin \/ DemoSummary
    \/ \E x \in 1 .. N_TX : Transaction(x)

SpecDemo == InitDemo /\ [][NextDemo]_vars

----------------------------------------------------------------------------
(* The CPU scheduler simulator: one call of one scheduling function *)

\* Largest number of processes, latest arrival, longest burst and longest
\* quantum of the process sets explored.
MaxProc == 3

MaxArrival == 2

MaxBurst == 3

MaxQuantum == 2

\* The value min_burst and highest_priority start from in the selection
\* loops.
Sentinel == 999999

\* int quantum = 4 in main.
MainQuantum == 4

Algorithms ==
    {"fcfs", "sjf", "priority_scheduling", "round_robin", "priority_round_robin"}

Quantized == {"round_robin", "priority_round_robin"}

ByPriority == {"priority_scheduling", "priority_round_robin"}

\* A Process as main initialises it: remaining_time = burst_time, the
\* result fields 0.
Process(pid, at, bt, pr) ==
    [pid |-> pid, arrival_time |-> at, burst_time |-> bt, priority |-> pr,
     remaining_time |-> bt, completion_time |-> 0, turnaround_time |-> 0,
     waiting_time |-> 0]

\* Process original[5] of main: Transfer, Inquiry, Fraud, Payment, Logging.
original ==
    [i \in 0 .. 4 |->
        <<Process(1, 0, 8, 2), Process(2, 1, 4, 1), Process(3, 2, 9, 3),
          Process(4, 3, 5, 2), Process(5, 4, 2, 1)>>[i + 1]]

\* The arrays of 1 .. MaxProc processes with pid = index + 1 whose arrival
\* time, burst time and priority are drawn from the given sets.
ProcessSets(arrivals, bursts, priorities) ==
    UNION { { [i \in 0 .. (k - 1) |-> Process(i + 1, f[i][1], f[i][2], f[i][3])]
              : f \in [0 .. (k - 1) -> arrivals \X bursts \X priorities] }
            : k \in 1 .. MaxProc }

\* The arguments of the calls explored for function a: main's own call, and
\* every small process set with early or late arrivals, short or long
\* bursts and, where the function looks at them, two priorities (then with
\* two arrival times instead of three) and a short or long quantum.
Calls(a) ==
    { [processes |-> original,
       quantum |-> IF a \in Quantized THEN MainQuantum ELSE 0] }
    \cup
    { [processes |-> ps, quantum |-> q]
      : ps \in ProcessSets(IF a \in ByPriority THEN {0, MaxArrival}
                           ELSE {0, 1, MaxArrival},
                           {1, MaxBurst},
                           IF a \in ByPriority THEN {1, 2} ELSE {1}),
        q \in IF a \in Quantized THEN {1, MaxQuantum} ELSE {0} }

\* The int n argument.
nprocs == Cardinality(DOMAIN processes)

\* The function has been entered with these arguments and has initialised
\* its locals.
SchedEntered(a, ps, q) ==
    /\ algorithm = a /\ processes = ps /\ quantum = q
    /\ s_pc = (IF a = "fcfs" THEN "sort" ELSE IF a = "round_robin" THEN "enqueue"
               ELSE "loop")
    /\ s_i = 0 /\ current_time = 0 /\ completed = 0
    /\ is_completed = [i \in DOMAIN ps |-> 0]
    /\ queue = <<>> /\ front = 0
    /\ in_queue = [i \in DOMAIN ps |-> 0]
    /\ last_executed = -1 /\ slices = <<>> /\ idles = {}

InitSched ==
    /\ IpcHolds(Boot(0)) /\ DemoBoot
    /\ \E a \in Algorithms : \E c \in Calls(a) : SchedEntered(a, c.processes, c.quantum)

\* The three result fields of a process that completes at time ct.
finish(proc, ct) ==
    [proc EXCEPT !.completion_time = ct,
                 !.turnaround_time = ct - proc.arrival_time,
                 !.waiting_time = (ct - proc.arrival_time) - proc.burst_time]

\* The interval in which processes[i] has the CPU.
slice(ps, i, from, to) == [idx |-> i, pid |-> ps[i].pid, from |-> from, to |-> to]

(* fcfs *)

\* The bubble sort of fcfs from pass i, position j on: neighbours are
\* swapped when the left one arrives strictly later.
RECURSIVE bubble(_, _, _)
bubble(ps, i, j) ==
    IF i >= Cardinality(DOMAIN ps) - 1 THEN ps
    ELSE IF j >= Cardinality(DOMAIN ps) - i - 1 THEN bubble(ps, i + 1, 0)
    ELSE IF ps[j].arrival_time > ps[j + 1].arrival_time
         THEN bubble([ps EXCEPT ![j] = ps[j + 1], ![j + 1] = ps[j]], i, j + 1)
         ELSE bubble(ps, i, j + 1)

FcfsSort ==
    /\ algorithm = "fcfs" /\ s_pc = "sort"
    /\ processes' = bubble(processes, 0, 0)
    /\ s_pc' = "loop"
    /\ UNCHANGED <<algorithm, quantum, s_i, current_time, completed, is_completed,
                   queue, front, in_queue, last_executed, slices, idles>>
    /\ UNCHANGED <<ipc_vars, demo_vars>>

\* Bug variant: fcfs does not wait for the arrival.
fcfs_start_at_once(now, proc) == now

\* When fcfs starts processes[i]: at once, or after idling until it arrives.
fcfs_start(now, proc) == IF now < proc.arrival_time THEN proc.arrival_time ELSE now

\* One turn of the for loop of fcfs.
FcfsStep ==
    /\ algorithm = "fcfs" /\ s_pc = "loop" /\ s_i < nprocs
    /\ LET start == fcfs_start(current_time, processes[s_i])
           ct == start + processes[s_i].burst_time
       IN  /\ processes' = [processes EXCEPT ![s_i] = finish(@, ct)]
           /\ slices' = Append(slices, slice(processes, s_i, start, ct))
           /\ idles' = IF start > current_time THEN idles \cup {current_time} ELSE idles
           /\ current_time' = ct
    /\ s_i' = s_i + 1
    /\ UNCHANGED <<algorithm, quantum, s_pc, completed, is_completed, queue, front,
                   in_queue, last_executed>>
    /\ UNCHANGED <<ipc_vars, demo_vars>>

(* sjf and priority_scheduling *)

\* The selection loop of sjf from index i on, with the locals min_burst and
\* min_index: the values min_index can have after the loop.  A process
\* whose burst equals min_burst while min_index is still -1 makes the loop
\* read processes[-1].arrival_time, an element outside the array, so the
\* comparison can come out either way.
RECURSIVE sjf_scan(_, _, _, _, _, _)
sjf_scan(ps, done, now, i, min_burst, min_index) ==
    IF i >= Cardinality(DOMAIN ps) THEN {min_index}
    ELSE IF ps[i].arrival_time <= now /\ done[i] = 0
    THEN IF ps[i].burst_time < min_burst
         THEN sjf_scan(ps, done, now, i + 1, ps[i].burst_time, i)
         ELSE IF ps[i].burst_time = min_burst
         THEN IF min_index = -1
              THEN sjf_scan(ps, done, now, i + 1, min_burst, i)
                   \cup sjf_scan(ps, done, now, i + 1, min_burst, min_index)
              ELSE IF ps[i].arrival_time < ps[min_index].arrival_time
                   THEN sjf_scan(ps, done, now, i + 1, min_burst, i)
                   ELSE sjf_scan(ps, done, now, i + 1, min_burst, min_index)
         ELSE sjf_scan(ps, done, now, i + 1, min_burst, min_index)
    ELSE sjf_scan(ps, done, now, i + 1, min_burst, min_index)

\* The min_index sjf can end its selection loop with.
sjf_select(ps, done, now) == sjf_scan(ps, done, now, 0, Sentinel, -1)

\* The selection loop of priority_scheduling and of priority_round_robin
\* from index i on, over the processes of ready (not completed,
\* respectively remaining_time > 0) that have arrived: min_index after the
\* loop.
RECURSIVE priority_scan(_, _, _, _, _, _)
priority_scan(ps, ready, now, i, highest_priority, min_index) ==
    IF i >= Cardinality(DOMAIN ps) THEN min_index
    ELSE IF ps[i].arrival_time <= now /\ i \in ready
    THEN IF ps[i].priority < highest_priority
         THEN priority_scan(ps, ready, now, i + 1, ps[i].priority, i)
         ELSE IF ps[i].priority = highest_priority
                 /\ (min_index = -1 \/ ps[i].arrival_time < ps[min_index].arrival_time)
         THEN priority_scan(ps, ready, now, i + 1, highest_priority, i)
         ELSE priority_scan(ps, ready, now, i + 1, highest_priority, min_index)
    ELSE priority_scan(ps, ready, now, i + 1, highest_priority, min_index)

priority_select(ps, ready, now) == priority_scan(ps, ready, now, 0, Sentinel, -1)

\* The idle branch is followed up to the latest arrival: a loop that still
\* idles then finds the same processes at every later time.
LastArrival == CHOOSE a \in {processes[i].arrival_time : i \in DOMAIN processes} :
                   \A i \in DOMAIN processes : processes[i].arrival_time <= a

\* The if (min_index == -1) branch: the clock advances by 1.
Idle ==
    /\ current_time <= LastArrival
    /\ idles' = idles \cup {current_time}
    /\ current_time' = current_time + 1

\* The else branch of sjf and priority_scheduling: processes[k] runs to
\* completion.
RunToCompletion(k) ==
    /\ processes' = [processes EXCEPT ![k] = finish(@, current_time + @.burst_time)]
    /\ slices' = Append(slices, slice(processes, k, current_time,
                                      current_time + processes[k].burst_time))
    /\ current_time' = current_time + processes[k].burst_time
    /\ is_completed' = [is_completed EXCEPT ![k] = 1]
    /\ completed' = completed + 1
    /\ idles' = idles

\* One turn of the while loop of sjf.
SjfStep ==
    /\ algorithm = "sjf" /\ s_pc = "loop" /\ completed # nprocs
    /\ \E k \in sjf_select(processes, is_completed, current_time) :
          IF k = -1
          THEN Idle /\ UNCHANGED <<processes, slices, is_completed, completed>>
          ELSE RunToCompletion(k)
    /\ UNCHANGED <<algorithm, quantum, s_pc, s_i, queue, front, in_queue, last_executed>>
    /\ UNCHANGED <<ipc_vars, demo_vars>>

\* One turn of the while loop of priority_scheduling.
PriorityStep ==
    /\ algorithm = "priority_scheduling" /\ s_pc = "loop" /\ completed # nprocs
    /\ LET k == priority_select(processes,
                                {i \in DOMAIN processes : is_completed[i] = 0},
                                current_time)
       IN  IF k = -1
           THEN Idle /\ UNCHANGED <<processes, slices, is_completed, completed>>
           ELSE RunToCompletion(k)
    /\ UNCHANGED <<algorithm, quantum, s_pc, s_i, queue, front, in_queue, last_executed>>
    /\ UNCHANGED <<ipc_vars, demo_vars>>

(* round_robin and priority_round_robin *)

\* The indices the enqueue loops append to the queue at time now, in index
\* order: arrived, never enqueued before, remaining_time > 0.
admit(ps, inq, now) ==
    SelectSeq([k \in 1 .. Cardinality(DOMAIN ps) |-> k - 1],
              LAMBDA i : ps[i].arrival_time <= now /\ inq[i] = 0
                         /\ ps[i].remaining_time > 0)

\* in_queue[i] = 1 for the indices of seq.
mark(inq, seq) ==
    [i \in DOMAIN inq |-> IF \E k \in 1 .. Len(seq) : seq[k] = i THEN 1 ELSE inq[i]]

\* The loop before the while loop of round_robin: the processes with
\* arrival_time == 0 are enqueued.
RrEnqueue ==
    /\ algorithm = "round_robin" /\ s_pc = "enqueue"
    /\ LET first == SelectSeq([k \in 1 .. nprocs |-> k - 1],
                              LAMBDA i : processes[i].arrival_time = 0)
       IN  /\ queue' = first
           /\ in_queue' = mark(in_queue, first)
    /\ s_pc' = "loop"
    /\ UNCHANGED <<algorithm, processes, quantum, s_i, current_time, completed,
                   is_completed, front, last_executed, slices, idles>>
    /\ UNCHANGED <<ipc_vars, demo_vars>>

\* int exec_time = (remaining_time > quantum) ? quantum : remaining_time
exec_time(remaining, q) == IF remaining > q THEN q ELSE remaining

\* Bug variant: the preempted process is put back before the newcomers.
requeue_preempted_first(q, newcomers, idx) == (q \o <<idx>>) \o newcomers

\* The queue after a slice that did not finish processes[idx]: the
\* processes that arrived by the end of the slice, then idx.
requeue(q, newcomers, idx) == (q \o newcomers) \o <<idx>>

\* One turn of the while loop of round_robin.
RrStep ==
    /\ algorithm = "round_robin" /\ s_pc = "loop" /\ completed # nprocs
    /\ IF front = Len(queue)
       THEN /\ Idle
            /\ queue' = queue \o admit(processes, in_queue, current_time + 1)
            /\ in_queue' = mark(in_queue, admit(processes, in_queue, current_time + 1))
            /\ UNCHANGED <<processes, front, completed, last_executed, slices>>
       ELSE LET idx == queue[front + 1]
                used == exec_time(processes[idx].remaining_time, quantum)
                now == current_time + used
                ran == [processes EXCEPT ![idx].remaining_time = @ - used]
                newcomers == admit(ran, in_queue, now)
            IN  /\ front' = front + 1
                /\ current_time' = now
                /\ slices' = Append(slices, slice(processes, idx, current_time, now))
                /\ in_queue' = mark(in_queue, newcomers)
                /\ idles' = idles
                /\ IF ran[idx].remaining_time = 0
                   THEN /\ processes' = [ran EXCEPT ![idx] = finish(@, now)]
                        /\ completed' = completed + 1
                        /\ last_executed' = -1
                        /\ queue' = queue \o newcomers
                   ELSE /\ processes' = ran
                        /\ completed' = completed
                        /\ last_executed' = idx
                        /\ queue' = requeue(queue, newcomers, idx)
    /\ UNCHANGED <<algorithm, quantum, s_pc, s_i, is_completed>>
    /\ UNCHANGED <<ipc_vars, demo_vars>>

\* One turn of the while loop of priority_round_robin.
PrrStep ==
    /\ algorithm = "priority_round_robin" /\ s_pc = "loop" /\ completed # nprocs
    /\ LET k == priority_select(processes,
                                {i \in DOMAIN processes : processes[i].remaining_time > 0},
                                current_time)
       IN  IF k = -1
           THEN /\ Idle
                /\ UNCHANGED <<processes, completed, last_executed, slices>>
           ELSE LET used == exec_time(processes[k].remaining_time, quantum)
                    now == current_time + used
                    ran == [processes EXCEPT ![k].remaining_time = @ - used]
                IN  /\ current_time' = now
                    /\ slices' = Append(slices, slice(processes, k, current_time, now))
                    /\ idles' = idles
                    /\ IF ran[k].remaining_time = 0
                       THEN /\ processes' = [ran EXCEPT ![k] = finish(@, now)]
                            /\ completed' = completed + 1
                            /\ last_executed' = -1
                       ELSE /\ processes' = ran
                            /\ completed' = completed
                            /\ last_executed' = k
    /\ UNCHANGED <<algorithm, quantum, s_pc, s_i, is_completed, queue, front, in_queue>>
    /\ UNCHANGED <<ipc_vars, demo_vars>>

\* The loop ends (i == n in fcfs, completed == n in the others); the Gantt
\* chart is printed and the metrics are returned.
SchedReturn ==
    /\ s_pc = "loop"
    /\ IF algorithm = "fcfs" THEN s_i = nprocs ELSE completed = nprocs
    /\ s_pc' = "returned"
    /\ UNCHANGED <<algorithm, processes, quantum, s_i, current_time, completed,
                   is_completed, queue, front, in_queue, last_executed, slices, idles>>
    /\ UNCHANGED <<ipc_vars, demo_vars>>

NextSched ==
    \/ FcfsSort \/ FcfsStep \/ SjfStep \/ PriorityStep
    \/ RrEnqueue \/ RrStep \/ PrrStep \/ SchedReturn

SpecSched == InitSched /\ [][NextSched]_vars

\* The function runs on: a loop that can take a turn takes it.
FairSched == SpecSched /\ WF_vars(NextSched)

\* Calls whose burst times (sjf) or priority values (the two priority
\* functions) reach the value the selection loops start from.
SentinelCalls(a) ==
    { [processes |-> ps, quantum |-> q]
      : ps \in ProcessSets({0, MaxArrival},
                           IF a = "sjf" THEN {1, Sentinel, Sentinel + 1}
                           ELSE IF a \in ByPriority THEN {MaxBurst}
                           ELSE {1, MaxBurst},
                           IF a \in ByPriority THEN {1, Sentinel, Sentinel + 1} ELSE {1}),
        q \in IF a \in Quantized THEN {1, MaxQuantum} ELSE {0} }

InitSentinel ==
    /\ IpcHolds(Boot(0)) /\ DemoBoot
    /\ \E a \in Algorithms :
          \E c \in SentinelCalls(a) : SchedEntered(a, c.processes, c.quantum)

FairSentinel == InitSentinel /\ [][NextSched]_vars /\ WF_vars(NextSched)

----------------------------------------------------------------------------
(* Properties *)

ConsumerDone == cpc = "exited" /\ c_exit = 0

ProducerLoopDone == ppc \in {"waitpid", "teardown"} \/ (ppc = "exited" /\ p_exit = 0)

Occurrences(recs, id) == Cardinality({k \in 1 .. Len(recs) : recs[k].tx_id = id})

\* C1: in safe mode, once the consumer has done its n dequeues and audited
\* them, missing = 0 and duplicate = 0, every consumed id lies in 1..n and
\* each id of 1..n was consumed exactly once.
C1_SafeAuditClean ==
    (g_unsafe = 0 /\ ConsumerDone) =>
        /\ missing = 0 /\ duplicates = 0
        /\ Len(got) = n
        /\ \A k \in 1 .. Len(got) : got[k].tx_id \in 1 .. n
        /\ \A id \in 1 .. n : Occurrences(got, id) = 1

C1_Witness == g_unsafe = 0 /\ ConsumerDone /\ n = MaxN /\ n > RING_CAP

\* C2: in safe mode the record returned by the k-th dequeue is the record
\* stored by the k-th enqueue, whose id is k, also once slots are reused.
C2_Fifo ==
    g_unsafe = 0 =>
        /\ Len(got) <= Len(sent)
        /\ \A k \in 1 .. Len(got) : got[k] = sent[k] /\ got[k].tx_id = k

C2_Witness == g_unsafe = 0 /\ Len(got) = n /\ n > RING_CAP /\ deq > RING_CAP

\* C3: in both modes the producer never starts writing a slot whose record
\* has not been completely copied out, the consumer never starts copying a
\* slot that does not hold a completely written, not yet consumed record,
\* and a write and a copy of the same slot never overlap.
C3_SlotHandOver ==
    /\ ~clobber
    /\ ~stale
    /\ ~torn
    /\ ~(ppc = "write_end" /\ cpc = "copy_end" /\ head = tail)

\* unsafe mode: the producer is writing a reused slot while the consumer is
\* copying the other one
C3_Witness ==
    g_unsafe = 1 /\ ppc = "write_end" /\ cpc = "copy_end" /\ enq >= RING_CAP

\* C7: head and tail lie in 0 .. RING_CAP-1 in every state of every run, so
\* buf[head] and buf[tail] are slots of the array.
C7_CursorsInRange ==
    /\ head \in 0 .. (RING_CAP - 1)
    /\ tail \in 0 .. (RING_CAP - 1)
    /\ head \in DOMAIN buf
    /\ tail \in DOMAIN buf

\* both cursors have wrapped around to 0 at least once
C7_Witness == enq = RING_CAP /\ deq = RING_CAP /\ head = 0 /\ tail = 0 /\ n > RING_CAP

\* C9: the k-th record stored has id k and kind (k-1) mod 5, never more
\* than n records are stored, and exactly n once the loop has ended.
C9_ProducerEmits ==
    /\ Len(sent) <= (IF n > 0 THEN n ELSE 0)
    /\ \A k \in 1 .. Len(sent) : sent[k].tx_id = k /\ sent[k].type = (k - 1) % 5
    /\ ProducerLoopDone => (Len(sent) = n /\ enq = n /\ p_i = n)

\* a run long enough for the kind to wrap around
C9_Witness == ProducerLoopDone /\ n > 5 /\ sent[n].type = 0

\* A process is blocked when it stands at a wait that cannot return.
PBlocked ==
    \/ ppc = "sem_wait_empty" /\ sem_empty = 0
    \/ ppc = "sem_wait_mutex" /\ sem_mutex = 0
    \/ ppc = "waitpid" /\ cpc # "exited"

CBlocked ==
    \/ cpc = "sem_wait_full" /\ sem_full = 0
    \/ cpc = "sem_wait_mutex" /\ sem_mutex = 0

\* The consumer has attached to the segment and the semaphores.
Attached == cpc \notin {"none", "attach"} /\ c_exit # 1

RunComplete ==
    /\ ppc = "exited" /\ p_exit = 0
    /\ ConsumerDone
    /\ enq = n /\ deq = n

\* C4: in both modes, for every n (also n > RING_CAP), no state has both
\* processes blocked, and under fair scheduling a run whose two processes
\* have completed their setup ends with n enqueues and n dequeues done, the
\* consumer exited and the coordinator exited.
C4_NoDeadlock ==
    /\ [](~(PBlocked /\ CBlocked))
    /\ (Attached ~> RunComplete)

\* an unsafe-mode run over more records than slots has run to its end
C4_Witness == g_unsafe = 1 /\ n > RING_CAP /\ RunComplete

\* The producer (consumer) is between the return of its wait on a counting
\* semaphore and its signal of the other one.
PInOp ==
    ppc \in {"sem_wait_mutex", "build", "write", "write_end", "head",
             "sem_post_mutex", "sem_post_full"}

CInOp ==
    cpc \in {"sem_wait_mutex", "copy", "copy_end", "tail",
             "sem_post_mutex", "sem_post_empty"}

\* C5 as stated: in every state in which the semaphores exist,
\* slots-free + slots-filled = capacity.
C5_SumAlwaysCapacity ==
    ipc = "created" => sem_empty + sem_full = RING_CAP

\* C5 as amended: slots-free + slots-filled = capacity in every state in
\* which neither process is between its wait on a counting semaphore and
\* the matching signal; in the other states the sum is smaller.
C5_SumCapacityWhenIdle ==
    ipc = "created" =>
        /\ (~PInOp /\ ~CInOp) => sem_empty + sem_full = RING_CAP
        /\ (PInOp \/ CInOp) => sem_empty + sem_full < RING_CAP

\* no operation in progress, ring neither empty nor full
C5_Witness ==
    ipc = "created" /\ ~PInOp /\ ~CInOp /\ sem_full > 0 /\ sem_empty > 0
    /\ Attached /\ enq > RING_CAP

\* C6 as stated: in safe mode the number of records enqueued and not yet
\* dequeued equals (head - tail + capacity) mod capacity and is at most
\* capacity.
C6_OccupancyIsCursorDistance ==
    g_unsafe = 0 =>
        /\ enq - deq = (head - tail + RING_CAP) % RING_CAP
        /\ enq - deq <= RING_CAP

\* C6 as amended: in safe mode that number lies in 0 .. capacity and equals
\* (head - tail + capacity) mod capacity whenever it is below capacity;
\* when it is capacity (every slot filled) head = tail and the expression
\* is 0.
C6_OccupancyModuloCapacity ==
    g_unsafe = 0 =>
        /\ enq - deq \in 0 .. RING_CAP
        /\ enq - deq < RING_CAP => enq - deq = (head - tail + RING_CAP) % RING_CAP
        /\ enq - deq = RING_CAP => head = tail

\* the producer has filled every slot
C6_Witness == g_unsafe = 0 /\ enq - deq = RING_CAP /\ head = tail /\ deq > 0

InRange(recs) == {k \in 1 .. Len(recs) : recs[k].tx_id \in 1 .. n}

RECURSIVE SumTable(_, _)
SumTable(tbl, id) == IF id > n THEN 0 ELSE tbl[id] + SumTable(tbl, id + 1)

\* C10: whatever ids the ring delivers, the consumer indexes seen[] only
\* inside 1..n, a record whose id is outside 1..n changes no counter (the
\* counters add up to the number of in-range records) but is counted as
\* processed, and the consumer leaves after exactly n dequeues.
C10_ToleratesAnyId ==
    /\ touched \subseteq 1 .. n
    /\ touched \subseteq DOMAIN seen
    /\ cpc \in {"t0", "sem_wait_full", "audit"} =>
          /\ c_i = Len(got)
          /\ SumTable(seen, 1) = Cardinality(InRange(got))
    /\ cpc \in {"audit"} \/ ConsumerDone =>
          /\ c_i = n /\ Len(got) = n /\ deq = n

\* the consumer has finished a run in which it received an id below 1 and
\* an id above n
C10_Witness ==
    /\ ConsumerDone
    /\ \E k \in 1 .. Len(got) : got[k].tx_id = 0
    /\ \E k \in 1 .. Len(got) : got[k].tx_id = n + 1

\* C8: from the start of the program in unsafe mode, some run, for some
\* record count, ends with the consumer reporting missing > 0 or
\* duplicate > 0.
C8_CorruptionPossible ==
    (g_unsafe = 1 /\ ppc = "scanf") =>
        \E s \in Reachable(State) :
            /\ s.cpc = "exited" /\ s.c_exit = 0
            /\ s.missing > 0 \/ s.duplicates > 0

\* The ids of 1..n that never occur in recs, and the number of occurrences
\* beyond the first, summed over the ids from id to n.
NeverObserved(recs) == {id \in 1 .. n : Occurrences(recs, id) = 0}

RECURSIVE SurplusIn(_, _, _)
SurplusIn(recs, lo, hi) ==
    IF lo > hi THEN 0
    ELSE IF lo = hi
         THEN (IF Occurrences(recs, lo) > 1 THEN Occurrences(recs, lo) - 1 ELSE 0)
         ELSE SurplusIn(recs, lo, (lo + hi) \div 2)
              + SurplusIn(recs, (lo + hi) \div 2 + 1, hi)

Surplus(recs, id) == SurplusIn(recs, id, n)

\* C11: for every stream of n consumed ids, the reported missing is the
\* number of ids of 1..n never observed and the reported duplicate is the
\* sum over the ids of 1..n of the occurrences beyond the first.
C11_AuditCountsTruly ==
    ConsumerDone =>
        /\ missing = Cardinality(NeverObserved(got))
        /\ duplicates = Surplus(got, 1)

\* C12: once the count read from the console is unparsable, zero or
\* negative, main has exited with code 1 and has made no IPC call: nothing
\* was unlinked, created or opened, and no consumer was launched.
C12_InvalidInputExits ==
    (ppc # "scanf" /\ n <= 0) =>
        /\ ppc = "exited" /\ p_exit = 1
        /\ calls = {} /\ ipc = "absent"
        /\ cpc = "none" /\ c_exit = -1
        /\ enq = 0 /\ deq = 0

\* a negative count has been entered
C12_Witness == ppc = "exited" /\ n < 0 /\ p_exit = 1

\* C13: a process in which a setup call (create, open, map, allocate,
\* launch) has failed is terminated with exit code 1, in the very state the
\* failure leads to and for ever after, and has performed no enqueue
\* (main) and no dequeue (consumer).
C13_SetupFailureExits ==
    /\ "main" \in failed =>
          /\ ppc = "exited" /\ p_exit = 1
          /\ enq = 0 /\ sent = <<>> /\ p_i = 0
    /\ "consumer" \in failed =>
          /\ cpc = "exited" /\ c_exit = 1
          /\ deq = 0 /\ got = <<>> /\ c_i = 0

\* the consumer's setup has failed while the producer has filled the ring
C13_Witness == failed = {"consumer"} /\ enq = RING_CAP /\ sem_empty = 0

\* C14: main exits with code 0 only on normal completion: when the
\* consumer has failed its setup and exited with code 1, main does not
\* terminate with exit code 0.
C14_ExitZeroOnlyOnCompletion ==
    ("consumer" \in failed /\ c_exit = 1) => ~(ppc = "exited" /\ p_exit = 0)

\* C15: when main launches the consumer the segment exists and is zeroed
\* and the semaphores exist with their initial values; a consumer exists
\* only after that; main starts its teardown (unmap, close, unlink) only
\* after its n enqueues are done and the consumer has exited; the consumer
\* is never between attach and exit once the teardown has started.
C15_Lifecycle ==
    /\ ppc = "fork" =>
          /\ ipc = "created" /\ cpc = "none"
          /\ head = 0 /\ tail = 0 /\ \A k \in Slots : buf[k] = ZeroMsg
          /\ sem_empty = RING_CAP /\ sem_full = 0
    /\ cpc # "none" =>
          /\ ipc \in {"created", "unlinked"}
          /\ {"shm_open", "sem_open", "fork"} \subseteq calls
    /\ (ppc = "teardown" \/ ipc = "unlinked") =>
          /\ enq = n /\ p_i = n
          /\ cpc = "exited"
    /\ cpc \notin {"none", "exited"} =>
          /\ ipc = "created"
          /\ ppc \notin {"teardown", "exited"}

\* the names are unlinked after a run over more records than slots
C15_Witness == ipc = "unlinked" /\ ConsumerDone /\ n > RING_CAP /\ deq = n

\* C16: a consumer that has done its n dequeues and exited has exit code 0
\* and has reported the missing and duplicate counts of what it consumed,
\* whatever their values; exit code 1 comes from a failed setup only; the
\* consumer never exits with code 0 before n dequeues; and the audit step
\* can always run.
C16_AuditNeverFails ==
    /\ (cpc = "exited" /\ deq = n) =>
          /\ c_exit = 0
          /\ missing = Cardinality(NeverObserved(got))
          /\ duplicates = Surplus(got, 1)
    /\ c_exit = 1 => "consumer" \in failed
    /\ ConsumerDone => (deq = n /\ Len(got) = n /\ c_i = n)
    /\ cpc = "audit" => c_audit(State) # {}

\* the consumer has exited normally with both counts positive
C16_Witness == ConsumerDone /\ missing > 0 /\ duplicates > 0

\* C17: on a clock that never goes backwards, in safe mode, every record
\* the consumer holds carries the send time its producer stamped, that
\* stamp is not later than the clock when the consumer reads t1, and the
\* one-way latency t1 - t_send_us computed for every record is >= 0.
C17_LatencyNonNegative ==
    g_unsafe = 0 =>
        /\ c_lat >= 0
        /\ \A k \in 1 .. Len(got) :
              got[k].t_send_us = sent[k].t_send_us /\ got[k].t_send_us <= clock
        /\ cpc = "validate" => latency(c_t0, clock, c_msg) >= 0

\* a record stamped after the consumer began to wait has been received with
\* a positive latency
C17_Witness ==
    /\ g_unsafe = 0 /\ c_i > 0 /\ c_lat > 0
    /\ c_msg.t_send_us > c_t0

\* The producer holds the record of the current iteration, stamped.
PStamped == ppc \in {"write", "write_end", "head", "sem_post_mutex", "sem_post_full"}

\* C19 as stated: the send time of a record is stamped before the producer
\* begins to wait on slots-free, so it is not later than t0, which is read
\* right before that wait.
C19_StampBeforeWait ==
    PStamped => p_msg.t_send_us <= p_t0

\* C19 as amended: the send time is stamped after the wait on slots-free
\* and, in safe mode, the wait on the mutex have returned, and before the
\* record is written: t0 <= return of the last wait <= t_send_us <= now,
\* and the record stored into the slot carries that stamp.
C19_StampAfterWaits ==
    /\ PStamped =>
          /\ p_t0 <= p_twaited
          /\ p_twaited <= p_msg.t_send_us
          /\ p_msg.t_send_us <= clock
    /\ \A k \in 1 .. Len(sent) : sent[k].t_send_us <= clock
    /\ ppc \in {"head", "sem_post_mutex", "sem_post_full"} =>
          sent[Len(sent)].t_send_us = p_msg.t_send_us

\* the producer had to wait for a free slot and the clock moved meanwhile:
\* the stamp is later than t0
C19_Witness ==
    /\ PStamped /\ p_i >= RING_CAP
    /\ p_t0 < p_twaited /\ p_msg.t_send_us > p_t0

\* The producer (consumer) is between the return of its wait on the mutex
\* and its release of it.
PHolds ==
    g_unsafe = 0 /\ ppc \in {"build", "write", "write_end", "head", "sem_post_mutex"}

CHolds ==
    g_unsafe = 0 /\ cpc \in {"copy", "copy_end", "tail", "sem_post_mutex"}

\* What each step of an Enqueue finds done before it.
EnqueueOrder ==
    /\ sem_empty' < sem_empty =>
          /\ ppc = "sem_wait_empty"
          /\ Len(sent) = p_i /\ enq = p_i
          /\ sem_mutex' = sem_mutex
    /\ (sem_mutex' < sem_mutex /\ ppc' # ppc) =>
          /\ g_unsafe = 0 /\ ppc = "sem_wait_mutex"
          /\ Len(sent) = p_i /\ enq = p_i
    /\ sent' # sent =>
          /\ Len(sent) = p_i /\ enq = p_i
          /\ g_unsafe = 0 => (sem_mutex = 0 /\ ~CHolds)
    /\ enq' # enq =>
          /\ Len(sent) = p_i + 1 /\ enq = p_i
          /\ head' = (head + 1) % RING_CAP
          /\ g_unsafe = 0 => (sem_mutex = 0 /\ ~CHolds)
    /\ (sem_mutex' > sem_mutex /\ ppc' # ppc) =>
          /\ g_unsafe = 0
          /\ Len(sent) = p_i + 1 /\ enq = p_i + 1
          /\ sem_full' = sem_full
    /\ sem_full' > sem_full =>
          /\ ppc = "sem_post_full"
          /\ Len(sent) = p_i + 1 /\ enq = p_i + 1
          /\ g_unsafe = 0 => (sem_mutex = 1 \/ CHolds)

\* What each step of a Dequeue finds done before it.
DequeueOrder ==
    /\ sem_full' < sem_full =>
          /\ cpc = "sem_wait_full"
          /\ Len(got) = c_i /\ deq = c_i
          /\ sem_mutex' = sem_mutex
    /\ (sem_mutex' < sem_mutex /\ cpc' # cpc) =>
          /\ g_unsafe = 0 /\ cpc = "sem_wait_mutex"
          /\ Len(got) = c_i /\ deq = c_i
    /\ got' # got =>
          /\ Len(got) = c_i /\ deq = c_i
          /\ g_unsafe = 0 => (sem_mutex = 0 /\ ~PHolds)
    /\ deq' # deq =>
          /\ Len(got) = c_i + 1 /\ deq = c_i
          /\ tail' = (tail + 1) % RING_CAP
          /\ g_unsafe = 0 => (sem_mutex = 0 /\ ~PHolds)
    /\ (sem_mutex' > sem_mutex /\ cpc' # cpc) =>
          /\ g_unsafe = 0
          /\ Len(got) = c_i + 1 /\ deq = c_i + 1
          /\ sem_empty' = sem_empty
    /\ sem_empty' > sem_empty =>
          /\ cpc = "sem_post_empty"
          /\ Len(got) = c_i + 1 /\ deq = c_i + 1
          /\ g_unsafe = 0 => (sem_mutex = 1 \/ PHolds)

\* A process standing at its wait on a counting semaphore does not hold the
\* mutex: if the mutex is taken, the other process holds it.
NoCountingWaitUnderMutex ==
    (g_unsafe = 0 /\ ipc = "created") =>
        /\ (ppc = "sem_wait_empty" /\ sem_mutex = 0) => CHolds
        /\ (cpc = "sem_wait_full" /\ sem_mutex = 0) => PHolds

\* C18: an Enqueue runs wait(slots-free), [safe: acquire mutex], write the
\* slot, advance head, [safe: release mutex], signal(slots-filled), and a
\* Dequeue runs wait(slots-filled), [safe: acquire], copy, advance tail,
\* [safe: release], signal(slots-free), in that order: slots-filled is
\* signalled only after the record is written and head advanced,
\* slots-free only after the record is copied and tail advanced, and no
\* process waits on a counting semaphore while it holds the mutex (every
\* step taken once the semaphores exist is checked).
C18_OperationOrder ==
    /\ [][ipc = "created" => (EnqueueOrder /\ DequeueOrder)]_vars
    /\ []NoCountingWaitUnderMutex

\* the producer is blocked on slots-free while the consumer holds the mutex
C18_Witness ==
    /\ g_unsafe = 0 /\ ppc = "sem_wait_empty" /\ sem_empty = 0
    /\ CHolds /\ sem_mutex = 0 /\ deq > 0

\* C20: in safe mode the mutex is created with value 1, its value is
\* always 0 or 1, namely 1 minus the number of processes between acquire
\* and release, at most one process is there, and the producer's write and
\* head update never overlap the consumer's copy and tail update.
C20_MutexExclusion ==
    g_unsafe = 0 =>
        /\ ppc = "fork" => sem_mutex = 1
        /\ ipc # "absent" =>
              /\ sem_mutex \in {0, 1}
              /\ sem_mutex = 1 - (IF PHolds THEN 1 ELSE 0) - (IF CHolds THEN 1 ELSE 0)
        /\ ~(PHolds /\ CHolds)
        /\ ~(ppc \in {"write", "write_end", "head"} /\ cpc \in {"copy", "copy_end", "tail"})

\* the producer is writing a slot while the consumer waits for the mutex
C20_Witness ==
    /\ g_unsafe = 0 /\ ppc = "write_end" /\ cpc = "sem_wait_mutex"
    /\ sem_mutex = 0 /\ enq > 0

\* C21: slots-free is created with value RING_CAP and slots-filled with
\* value 0; both lie in 0 .. RING_CAP in every state; a process about to
\* signal a counting semaphore finds it below RING_CAP, so the signal never
\* meets the maximum count.
C21_SemaphoreBounds ==
    /\ ppc = "fork" => (sem_empty = RING_CAP /\ sem_full = 0)
    /\ sem_empty \in 0 .. RING_CAP
    /\ sem_full \in 0 .. RING_CAP
    /\ ppc = "sem_post_full" => sem_full < RING_CAP
    /\ cpc = "sem_post_empty" => sem_empty < RING_CAP

\* the ring is full after the cursors have wrapped: slots-filled is at its
\* maximum
C21_Witness == sem_full = RING_CAP /\ sem_empty = 0 /\ enq > RING_CAP /\ deq > 0

\* C22: once the ring exists, head changes only in the producer's
\* advance step, which leaves tail and every slot alone; tail changes only
\* in the consumer's advance step, which leaves head and every slot alone;
\* the only step that changes a slot is the producer's write, and it
\* changes the slot at head and no other; no consumer step changes head or
\* a slot and no producer step changes tail, in both modes.
C22_CursorOwnership ==
    [][ipc = "created" =>
         /\ head' # head =>
               (ppc = "head" /\ cpc' = cpc /\ tail' = tail /\ buf' = buf)
         /\ tail' # tail =>
               (cpc = "tail" /\ ppc' = ppc /\ head' = head /\ buf' = buf)
         /\ buf' # buf =>
               /\ ppc = "write_end" /\ cpc' = cpc
               /\ buf' = [buf EXCEPT ![head] = p_msg]
               /\ head' = head /\ tail' = tail
         /\ cpc' # cpc => (head' = head /\ buf' = buf)
         /\ ppc' # ppc => tail' = tail]_vars

\* unsafe mode: both processes are about to advance their cursor, slots
\* having been reused
C22_Witness ==
    g_unsafe = 1 /\ ppc = "head" /\ cpc = "tail" /\ enq >= RING_CAP

\* The consumer has terminated in its setup.
ConsumerDied == "consumer" \in failed

\* The producer stands for ever at its wait on slots-free, RING_CAP records
\* stored and none taken.
PStuckOnFullRing ==
    ppc = "sem_wait_empty" /\ sem_empty = 0 /\ p_i = RING_CAP /\ deq = 0

C24_NoMutexInUnsafeMode ==
    g_unsafe = 1 =>
        /\ mutex_ops \subseteq {"main.unlink"}
        /\ sem_mutex = 0

\* C25: a consumer, once launched, runs with the mode and the record count
\* of the main that launched it, however it was launched (fork, or a second
\* instance started with arguments); so the consumer takes the mutex steps
\* exactly when main does and leaves after as many operations as main
\* performs.
C25_SameModeAndCount ==
    cpc # "none" =>
        /\ c_unsafe = g_unsafe
        /\ c_n = n
        /\ cpc \in {"sem_wait_mutex", "sem_post_mutex"} => g_unsafe = 0
        /\ ConsumerDone => c_i = n
        /\ (ConsumerDone /\ ProducerLoopDone) => deq = enq

\* an unsafe-mode consumer has finished a run whose count has two digits
C25_Witness == g_unsafe = 1 /\ c_unsafe = 1 /\ ConsumerDone /\ c_n >= 10

RECURSIVE SumSeq(_)
SumSeq(q) == IF q = <<>> THEN 0 ELSE q[1] + SumSeq(Tail(q))

MinSeq(q) == CHOOSE x \in {q[k] : k \in 1 .. Len(q)} : \A k \in 1 .. Len(q) : x <= q[k]

MaxSeq(q) == CHOOSE x \in {q[k] : k \in 1 .. Len(q)} : \A k \in 1 .. Len(q) : x >= q[k]

\* C26: for every non-empty series of recorded latencies, the running sum
\* is the sum of the series over as many samples as iterations done, the
\* running min is the least and the running max the greatest value of the
\* series, so that min <= sum / count <= max.
C26_AggregatesMatchSeries ==
    Len(lats) > 0 =>
        /\ Len(lats) = c_i
        /\ lat_sum = SumSeq(lats)
        /\ min_lat = MinSeq(lats)
        /\ max_lat = MaxSeq(lats)
        /\ min_lat * Len(lats) <= lat_sum
        /\ lat_sum <= max_lat * Len(lats)

\* How many processes are between the return of their wait on a counting
\* semaphore and the matching signal.
InFlight == (IF PInOp THEN 1 ELSE 0) + (IF CInOp THEN 1 ELSE 0)

\* C27: once the semaphores exist, slots-free + slots-filled + the number
\* of processes between their wait on a counting semaphore and the
\* matching signal is RING_CAP; so the sum of the two semaphores is
\* RING_CAP, RING_CAP - 1 or RING_CAP - 2.
C27_RefinedOccupancy ==
    ipc # "absent" =>
        /\ sem_empty + sem_full + InFlight = RING_CAP
        /\ sem_empty + sem_full \in {RING_CAP, RING_CAP - 1, RING_CAP - 2}

\* an Enqueue and a Dequeue are both in progress
C27_Witness ==
    PInOp /\ CInOp /\ sem_empty + sem_full = RING_CAP - 2 /\ enq > RING_CAP

C29_Quiescent ==
    (ProducerLoopDone /\ ConsumerDone) =>
        /\ head = n % RING_CAP
        /\ tail = n % RING_CAP
        /\ sem_empty = RING_CAP
        /\ sem_full = 0
        /\ g_unsafe = 0 => sem_mutex = 1

\* a safe-mode run whose count is above the capacity and not a multiple of
\* it has completed
C29_Witness ==
    /\ g_unsafe = 0 /\ RunComplete
    /\ n > RING_CAP /\ n % RING_CAP # 0 /\ head # 0

\* Dequeues completed: slots the consumer has given back.
CDequeues == c_i + (IF cpc = "validate" THEN 1 ELSE 0)

\* C30: with n <= RING_CAP the producer is never blocked on slots-free, and
\* from the start of its loop it reaches the end of its n enqueues while
\* the consumer takes no step at all; the producer is blocked on slots-free
\* only with n > RING_CAP and the consumer RING_CAP completed operations
\* behind, which is where it gets when n > RING_CAP and the consumer does
\* not run.
C30_BlocksOnlyWhenFull ==
    /\ (ppc = "sem_wait_empty" /\ sem_empty = 0) =>
          /\ n > RING_CAP
          /\ p_i - CDequeues = RING_CAP
    /\ (ppc = "t0" /\ p_i = 0 /\ cpc = "attach" /\ n <= RING_CAP) =>
          /\ PRun(State).ppc = "waitpid"
          /\ PRun(State).enq = n /\ PRun(State).deq = 0
    /\ (ppc = "t0" /\ p_i = 0 /\ cpc = "attach" /\ n > RING_CAP) =>
          /\ PRun(State).ppc = "sem_wait_empty"
          /\ PRun(State).enq = RING_CAP /\ PRun(State).sem_empty = 0

\* the producer has stored as many records as the ring has slots and left
\* its loop before the consumer has taken its first step
C30_Witness ==
    n = RING_CAP /\ ProducerLoopDone /\ enq = n /\ cpc = "attach" /\ deq = 0

\* C31: whatever an earlier run left behind under the four names, when main
\* of a new run with a valid count stands before its first Enqueue the
\* cursors are 0, slots-free is the capacity, slots-filled is 0 and, in
\* safe mode, the mutex is 1; and the consumer's first Dequeue starts with
\* tail = 0.
C31_FreshStart ==
    /\ (ipc = "created" /\ p_i = 0 /\ ppc \in {"fork", "t0", "sem_wait_empty"}) =>
           /\ head = 0 /\ tail = 0
           /\ sem_empty = RING_CAP /\ sem_full = 0
           /\ (g_unsafe = 0 => sem_mutex = 1)
    /\ (c_i = 0 /\ cpc \in {"t0", "sem_wait_full"}) => tail = 0

C31_Witness ==
    /\ left_behind.names = Names
    /\ left_behind.empty = 0 /\ left_behind.full = RING_CAP /\ left_behind.mutex = 0
    /\ left_behind.head = RING_CAP - 1
    /\ g_unsafe = 0 /\ ipc = "created" /\ p_i = 0 /\ ppc = "sem_wait_empty"
    /\ cpc = "sem_wait_full"

\* The threads inside the read-subtract-write of account_balance.
InCriticalSection == {x \in 1 .. N_TX : t_pc[x] \in {"read", "write", "unlock"}}

\* The threads that have stored their result into account_balance.
Wrote == {x \in 1 .. N_TX : t_pc[x] \in {"unlock", "print_lock", "print", "returned"}}

\* C32: in the mutex-timing demo at most one thread at a time is inside the
\* read-subtract-write of account_balance, the 'before' value of a thread
\* is the initial balance or the 'after' value of another thread that has
\* written, and when main prints the summary the balance is the initial
\* balance minus the three amounts, 7300.
C32_NoLostUpdate ==
    /\ Cardinality(InCriticalSection) <= 1
    /\ \A x \in 1 .. N_TX :
           t_pc[x] \in {"write", "unlock", "print_lock", "print", "returned"} =>
               \/ before[x] = InitialBalance
               \/ \E y \in Wrote \ {x} : before[x] = after[y]
    /\ (d_pc = "summary" \/ (d_pc = "exited" /\ d_exit = 0)) =>
           /\ account_balance = InitialBalance - (txs[1] + txs[2] + txs[3])
           /\ account_balance = 7300

C32_Witness ==
    /\ d_pc = "exited" /\ d_exit = 0
    /\ before[3] = InitialBalance /\ before[1] = after[3] /\ before[2] = after[1]

\* C33: when any of the five scheduling functions has returned, every
\* process has completion_time >= arrival_time + burst_time,
\* turnaround_time = completion_time - arrival_time and waiting_time =
\* turnaround_time - burst_time >= 0; and at all times the execution
\* intervals follow one another on the simulated clock without overlap.
C33_TimesConsistent ==
    /\ s_pc = "returned" =>
           \A i \in DOMAIN processes :
               /\ processes[i].completion_time
                      >= processes[i].arrival_time + processes[i].burst_time
               /\ processes[i].turnaround_time
                      = processes[i].completion_time - processes[i].arrival_time
               /\ processes[i].waiting_time
                      = processes[i].turnaround_time - processes[i].burst_time
               /\ processes[i].waiting_time >= 0
    /\ \A a, b \in 1 .. Len(slices) :
           /\ slices[a].from <= slices[a].to
           /\ a < b => slices[a].to <= slices[b].from

C33_Witness ==
    /\ s_pc = "returned" /\ algorithm = "fcfs" /\ nprocs = MaxProc
    /\ idles # {}
    /\ \E i \in DOMAIN processes : processes[i].waiting_time > 0
    /\ \E i \in DOMAIN processes : processes[i].pid # i + 1

\* The CPU time processes[i] has received.
RECURSIVE CpuTime(_, _)
CpuTime(i, k) ==
    IF k = 0 THEN 0
    ELSE (IF slices[k].pid = processes[i].pid THEN slices[k].to - slices[k].from ELSE 0)
         + CpuTime(i, k - 1)

\* remaining_time of the two quantum-based functions: never negative, and
\* what is left of the burst after the slices received.
RemainingWellFormed ==
    algorithm \in Quantized =>
        \A i \in DOMAIN processes :
            /\ processes[i].remaining_time >= 0
            /\ processes[i].remaining_time
                   = processes[i].burst_time - CpuTime(i, Len(slices))

\* Every slice of the two quantum-based functions lasts min(quantum, what
\* remained when it began).
SliceIsMin ==
    algorithm \in Quantized =>
        \A k \in 1 .. Len(slices) :
            \E i \in DOMAIN processes :
                /\ processes[i].pid = slices[k].pid
                /\ slices[k].to - slices[k].from
                       = exec_time(processes[i].burst_time - CpuTime(i, k - 1), quantum)

\* The function has returned, each process having received its burst_time
\* and having been completed by exactly one slice, the last it received.
AllCompleted ==
    /\ s_pc = "returned"
    /\ \A i \in DOMAIN processes :
           /\ CpuTime(i, Len(slices)) = processes[i].burst_time
           /\ Cardinality({k \in 1 .. Len(slices) :
                              /\ slices[k].pid = processes[i].pid
                              /\ slices[k].to = processes[i].completion_time}) = 1

Ready ==
    {i \in DOMAIN processes :
        processes[i].arrival_time <= current_time /\ is_completed[i] = 0}

\* What the function selects by: burst_time in sjf, the priority value in
\* priority_scheduling.
Key(i) == IF algorithm = "sjf" THEN processes[i].burst_time ELSE processes[i].priority

\* A turn of the loop of sjf or priority_scheduling that dispatches: the
\* process dispatched is ready, no ready process has a smaller key, none
\* with the same key arrived earlier, and it runs from now until its burst
\* is over and is then completed.
DispatchesBest ==
    Len(slices') = Len(slices) + 1 =>
        LET k == slices'[Len(slices')].idx
        IN  /\ k \in Ready
            /\ \A j \in Ready :
                   \/ Key(k) < Key(j)
                   \/ Key(k) = Key(j)
                      /\ processes[k].arrival_time <= processes[j].arrival_time
            /\ slices'[Len(slices')].from = current_time
            /\ slices'[Len(slices')].to = current_time + processes[k].burst_time
            /\ current_time' = current_time + processes[k].burst_time
            /\ is_completed'[k] = 1

\* A turn that dispatches nothing: the clock advances by 1 and no process
\* was ready.
IdlesOnlyWhenNoneReady ==
    (current_time' # current_time /\ slices' = slices) =>
        (current_time' = current_time + 1 /\ Ready = {})

\* The arrival time of the process with the given pid.
ArrivalOf(pid) ==
    processes[CHOOSE i \in DOMAIN processes : processes[i].pid = pid].arrival_time

\* fcfs dispatches by non-decreasing arrival time and in input order (pid
\* order) among equal arrivals.
FcfsOrder ==
    algorithm = "fcfs" =>
        \A a, b \in 1 .. Len(slices) :
            a < b =>
                \/ ArrivalOf(slices[a].pid) < ArrivalOf(slices[b].pid)
                \/ ArrivalOf(slices[a].pid) = ArrivalOf(slices[b].pid)
                   /\ slices[a].pid < slices[b].pid

\* No process is dispatched twice by the three non-preemptive functions.
RunsOnce ==
    algorithm \in {"fcfs", "sjf", "priority_scheduling"} =>
        \A a, b \in 1 .. Len(slices) : a # b => slices[a].pid # slices[b].pid

\* C35: sjf and priority_scheduling dispatch, at every dispatch, a process
\* of minimum burst_time (respectively priority value) among the arrived,
\* uncompleted ones, the earlier arrival among equals; the process runs to
\* completion; the clock idles by 1 only when no arrived, uncompleted
\* process exists; fcfs dispatches in non-decreasing arrival order, input
\* order among equal arrivals.
C35_NonPreemptiveSelection ==
    /\ [][(algorithm \in {"sjf", "priority_scheduling"} /\ s_pc = "loop") =>
              (DispatchesBest /\ IdlesOnlyWhenNoneReady)]_vars
    /\ [](FcfsOrder /\ RunsOnce)

\* The ready queue of round_robin: the entries of queue[] from front to
\* rear.
Pending == SubSeq(queue, front + 1, Len(queue))

\* The ready queue holds no process twice, and only processes that have
\* arrived and are unfinished.
QueueHoldsEachOnce ==
    algorithm = "round_robin" =>
        /\ \A a, b \in 1 .. Len(Pending) : a # b => Pending[a] # Pending[b]
        /\ \A a \in 1 .. Len(Pending) :
               /\ processes[Pending[a]].arrival_time <= current_time
               /\ processes[Pending[a]].remaining_time > 0

\* The queue changes at its two ends only: entries are added at the rear
\* and taken at the front, one at a time.
QueueIsFifo ==
    /\ Len(queue') >= Len(queue)
    /\ SubSeq(queue', 1, Len(queue)) = queue
    /\ front' \in {front, front + 1}

\* A turn that dispatches takes the process at the front of the queue,
\* which has arrived and has remaining_time > 0; when the slice leaves it
\* unfinished it goes to the rear, behind every process that arrived
\* during the slice or exactly at its end.
DispatchesFront ==
    Len(slices') = Len(slices) + 1 =>
        LET idx == slices'[Len(slices')].idx
        IN  /\ front # Len(queue) /\ idx = queue[front + 1]
            /\ front' = front + 1
            /\ processes[idx].arrival_time <= current_time
            /\ processes[idx].remaining_time > 0
            /\ processes'[idx].remaining_time > 0 =>
                   /\ Len(queue') > Len(queue)
                   /\ queue'[Len(queue')] = idx
                   /\ \A j \in DOMAIN processes :
                          (/\ processes[j].arrival_time > current_time
                           /\ processes[j].arrival_time <= current_time')
                          => \E a \in Len(queue) + 1 .. Len(queue') - 1 : queue'[a] = j

\* A turn that dispatches nothing happens with an empty ready queue only.
IdlesOnlyWhenQueueEmpty ==
    (current_time' # current_time /\ slices' = slices) =>
        (current_time' = current_time + 1 /\ front = Len(queue))

\* C36: in round_robin the ready queue is strictly FIFO and holds each
\* unfinished process at most once; a process that arrives during or at the
\* end of a slice is enqueued ahead of the process just preempted; only an
\* arrived process with remaining_time > 0 is dispatched; the clock idles
\* only when the queue is empty.
C36_RoundRobinQueue ==
    /\ [][(algorithm = "round_robin" /\ s_pc = "loop") =>
              (QueueIsFifo /\ DispatchesFront /\ IdlesOnlyWhenQueueEmpty)]_vars
    /\ []QueueHoldsEachOnce

C36_Witness ==
    /\ algorithm = "round_robin" /\ s_pc = "returned" /\ idles # {}
    /\ \E k \in 1 .. Len(slices), a \in 1 .. Len(queue) - 1 :
           /\ slices[k].idx = queue[a + 1]
           /\ \E k2 \in k + 1 .. Len(slices) : slices[k2].idx = slices[k].idx
           /\ processes[queue[a]].arrival_time > slices[k].from
           /\ processes[queue[a]].arrival_time < slices[k].to
           /\ queue[a] > queue[a + 1]

\* The processes priority_round_robin can dispatch now: arrived, with
\* remaining_time > 0.
Waiting ==
    {i \in DOMAIN processes :
        processes[i].arrival_time <= current_time /\ processes[i].remaining_time > 0}

\* A turn of priority_round_robin that dispatches takes a process with no
\* waiting process of a strictly lower priority value.
DispatchesBestPriority ==
    Len(slices') = Len(slices) + 1 =>
        LET k == slices'[Len(slices')].idx
        IN  /\ k \in Waiting
            /\ \A j \in Waiting : processes[k].priority <= processes[j].priority

\* The process of the slice that has just ended used a full quantum and is
\* unfinished.
JustUsedFullQuantum(k) ==
    /\ Len(slices) > 0
    /\ slices[Len(slices)].idx = k
    /\ slices[Len(slices)].to = current_time
    /\ slices[Len(slices)].to - slices[Len(slices)].from = quantum
    /\ processes[k].remaining_time > 0

\* A process that has just used a full quantum is not dispatched again
\* while another process of its priority value is waiting.
QuantaRotate ==
    Len(slices') = Len(slices) + 1 =>
        LET k == slices'[Len(slices')].idx
        IN  JustUsedFullQuantum(k) =>
                ~ \E j \in Waiting : j # k /\ processes[j].priority = processes[k].priority

\* C37: priority_round_robin dispatches a process only if no arrived
\* unfinished process has a strictly lower priority value, and the quanta
\* rotate among the arrived unfinished processes of the best priority
\* value: a process that has just used a full quantum is not dispatched
\* again while an equal-priority peer is waiting.
C37_PriorityRotation ==
    [][(algorithm = "priority_round_robin" /\ s_pc = "loop") =>
          (DispatchesBestPriority /\ QuantaRotate)]_vars

====
